---- MODULE Spec2Model ----
(***************************************************************************)
(* Model of the ashvattha snapshot builders:                               *)
(*   account.Client.GetAccountInfo   (src/internal/account/info.go)        *)
(*   marketdata.Client.GetMarketData (src/unnamed/part_000)                *)
(*                                                                         *)
(* Each builder is a sequential procedure; it is cut into steps at its     *)
(* adapter calls and loop iterations, and `pc`/`mpc` hold its position.    *)
(* The exchange adapter is the environment.  What it will answer to every  *)
(* call of one run is fixed in the initial state (`exchange`, `market`),   *)
(* drawn from bounded sets, so a run is the code's deterministic reaction  *)
(* to one adapter.                                                         *)
(*                                                                         *)
(* Value conventions                                                       *)
(*   *T pointer        <<>> is nil, <<v>> points to v                       *)
(*   float64 (prices)  extended rational [n, d]: n/d, 0/0 is NaN, 1/0 +Inf  *)
(*                     (current price, liquidation price)                  *)
(*   float64 (other)   an integer (finite, integral values only)            *)
(*   interface{}       [t, f, s, b]: dynamic type tag t and the payload     *)
(*   string to parse   sequence of one-character strings                    *)
(***************************************************************************)
EXTENDS Integers, Sequences, FiniteSets, TLC

VARIABLES
    exchange,         \* account adapter: its answer to every call of this run
    pc,               \* GetAccountInfo: position in the procedure
    calls,            \* GetAccountInfo: adapter calls issued so far, in order
    availableCash,    \* info.go:103
    positions,        \* info.go:111 (raw positions as returned)
    idx,              \* index of the raw position of the current iteration
    cur,              \* locals of the current iteration (info.go:122-250)
    oidx,             \* index of the open order of the current inner iteration
    openOrders,       \* info.go:242 (orders as returned; <<>> after an error)
    customPositions,  \* info.go:117
    totalNotional,    \* info.go:118
    result,           \* what GetAccountInfo returned
    market,           \* market adapter and indicator library of this run
    mpc,              \* GetMarketData: position in the procedure
    mcalls,           \* GetMarketData: adapter calls issued so far, in order
    mloc,             \* GetMarketData: locals computed so far
    mresult,          \* what GetMarketData returned
    accountReports,   \* strings AccountInfo.Format has returned, in call order
    marketReports,    \* strings MarketData.Format has returned, in call order
    stdout,           \* text written to the standard output so far
    prompt,           \* llm.Prompt: accountInfo and marketdata (prompt.go:48-52)
    userQuery,        \* buildPrompt: its argument
    ppc,              \* buildPrompt: position in the procedure
    sb,               \* buildPrompt: its strings.Builder (prompt.go:110)
    pidx,             \* buildPrompt: index into prompt.marketdata
    promptText,       \* what buildPrompt returned
    api,              \* DeepSeek client: its answer to the request of this run
    cpc,              \* callDeepSeekAPI: position of the caller
    gpc,              \* callDeepSeekAPI: position of the progress goroutine
    request,          \* prompt.go:136-148
    ctx,              \* prompt.go:151-152
    done,             \* prompt.go:155: the unbuffered channel
    progressTicker,   \* prompt.go:157-158: the goroutine's time.Ticker
    tickerC,          \* ticks waiting in ticker.C (a channel of capacity 1)
    response,         \* prompt.go:171: response and err
    llmLog,           \* messages written with log.Println, in order
    callResult        \* what callDeepSeekAPI returned

vars == <<exchange, pc, calls, availableCash, positions, idx, cur, oidx,
          openOrders, customPositions, totalNotional, result,
          market, mpc, mcalls, mloc, mresult,
          accountReports, marketReports, stdout, prompt, userQuery, ppc, sb,
          pidx, promptText,
          api, cpc, gpc, request, ctx, done, progressTicker, tickerC, response, llmLog,
          callResult>>

acctVars == <<exchange, pc, calls, availableCash, positions, idx, cur, oidx,
              openOrders, customPositions, totalNotional, result>>

mktVars == <<market, mpc, mcalls, mloc, mresult>>

reportVars == <<accountReports, marketReports, stdout, prompt, userQuery, ppc,
                sb, pidx, promptText>>

llmVars == <<api, cpc, gpc, request, ctx, done, progressTicker, tickerC, response,
             llmLog, callResult>>

(***************************************************************************)
(* Bounds of the explored adapters.                                        *)
(***************************************************************************)
MaxPositions == 2
MaxOrders == 2

(***************************************************************************)
(* Pointers, floats, dynamically typed values.                             *)
(***************************************************************************)
Nil == <<>>

Ptr(v) == <<v>>

Deref(p) == p[1]

F(n, d) == [n |-> n, d |-> d]

Num(i) == F(i, 1)

NaN == F(0, 0)

PosInf == F(1, 0)

IsNaN(x) == x.n = 0 /\ x.d = 0

IsFinite(x) == x.d # 0

\* Go's x == 0 on float64 (false for NaN and the infinities)
IsZeroF(x) == x.n = 0 /\ x.d # 0

Abs(i) == IF i < 0 THEN -i ELSE i

RECURSIVE GCD(_, _)
GCD(a, b) == IF b = 0 THEN a ELSE GCD(b, a % b)

\* float64 division v / a of finite values with a > 0, as an exact fraction
FDiv(v, a) ==
    LET g == GCD(Abs(v), a)
    IN  F(v \div g, a \div g)

Absent == [t |-> "absent", f |-> 0, s |-> "", b |-> FALSE]

JFloat(i) == [t |-> "float64", f |-> i, s |-> "", b |-> FALSE]

JString(str) == [t |-> "string", f |-> 0, s |-> str, b |-> FALSE]

JBool(v) == [t |-> "bool", f |-> 0, s |-> "", b |-> v]

\* v, ok := j.(float64) and friends: the "ok" half
IsFloat(j) == j.t = "float64"

IsString(j) == j.t = "string"

IsBool(j) == j.t = "bool"

(***************************************************************************)
(* fmt.Sscanf of the order id with the verb "%d", info.go:282.  It skips    *)
(* leading blanks, takes an optional sign and then the longest run of      *)
(* decimal digits; with no digit the scan fails and orderId keeps its zero *)
(* value.  What follows the digits is left unread.                         *)
(***************************************************************************)
DigitChars == {"0", "1", "2", "3", "4", "5", "6", "7", "8", "9"}

DigitVal(c) ==
    CASE c = "0" -> 0 [] c = "1" -> 1 [] c = "2" -> 2 [] c = "3" -> 3
      [] c = "4" -> 4 [] c = "5" -> 5 [] c = "6" -> 6 [] c = "7" -> 7
      [] c = "8" -> 8 [] c = "9" -> 9

RECURSIVE SkipBlanks(_, _)
SkipBlanks(str, i) ==
    IF i <= Len(str) /\ str[i] = " " THEN SkipBlanks(str, i + 1) ELSE i

RECURSIVE ScanDigits(_, _, _)
ScanDigits(str, i, acc) ==
    IF i <= Len(str) /\ str[i] \in DigitChars
    THEN ScanDigits(str, i + 1, 10 * acc + DigitVal(str[i]))
    ELSE acc

SscanfD(str) ==
    LET i == SkipBlanks(str, 1)
        signed == i <= Len(str) /\ str[i] \in {"-", "+"}
        j == IF signed THEN i + 1 ELSE i
        hasDigit == j <= Len(str) /\ str[j] \in DigitChars
        mag == ScanDigits(str, j, 0)
    IN  IF ~hasDigit THEN 0
        ELSE IF signed /\ str[i] = "-" THEN -mag ELSE mag

(***************************************************************************)
(* Per-position code of GetAccountInfo, as operators over a raw position.  *)
(***************************************************************************)
\* info.go:125-133, 183-191: if p != nil { x = *p }, else the zero value
OrZero(p) == IF p # Nil THEN Deref(p) ELSE 0

OrEmpty(p) == IF p # Nil THEN Deref(p) ELSE ""

\* info.go:136-145: the adapter's mark price
MarkPriceStep(pos) ==
    IF pos.MarkPrice # Nil
    THEN LET m == Deref(pos.MarkPrice)
         IN  IF ~IsNaN(m) /\ ~IsZeroF(m)
             THEN [currentPrice |-> m, hasMarkPrice |-> TRUE]
             ELSE [currentPrice |-> Num(0), hasMarkPrice |-> FALSE]
    ELSE [currentPrice |-> Num(0), hasMarkPrice |-> FALSE]

\* mutant of InfoPriceStep: the size is not made positive before dividing
InfoPriceStepSigned(pos, mp) ==
    IF ~mp.hasMarkPrice /\ ~pos.Info.isNil
       /\ pos.Info.position.isMap
       /\ IsFloat(pos.Info.position.positionValue)
       /\ IsFloat(pos.Info.position.szi)
       /\ pos.Info.position.szi.f # 0
    THEN LET szi == pos.Info.position.szi.f
             q == FDiv(pos.Info.position.positionValue.f, Abs(szi))
         IN  IF szi < 0 THEN F(-q.n, q.d) ELSE q
    ELSE mp.currentPrice

\* info.go:147-163: positionValue / |szi| from Info["position"]
InfoPriceStep(pos, mp) ==
    IF ~mp.hasMarkPrice /\ ~pos.Info.isNil
       /\ pos.Info.position.isMap
       /\ IsFloat(pos.Info.position.positionValue)
       /\ IsFloat(pos.Info.position.szi)
       /\ pos.Info.position.szi.f # 0
    THEN LET szi == pos.Info.position.szi.f
             absSzi == IF szi < 0 THEN -szi ELSE szi
         IN  FDiv(pos.Info.position.positionValue.f, absSzi)
    ELSE mp.currentPrice

\* info.go:135-163
PriceBeforeTicker(pos) == InfoPriceStep(pos, MarkPriceStep(pos))

\* info.go:166: the ticker is asked only for a price that is still zero
NeedsTicker(currentPrice) == IsZeroF(currentPrice)

\* info.go:167-170
TickerStep(currentPrice, ticker) ==
    IF ~ticker.err /\ ticker.Last # Nil THEN Deref(ticker.Last) ELSE currentPrice

\* mutant of LiquidationStep: a zero or NaN adapter value falls through to
\* the auxiliary data, as the mark price does
LiquidationStepSkipsZero(pos) ==
    IF pos.LiquidationPrice # Nil /\ ~IsNaN(Deref(pos.LiquidationPrice))
       /\ ~IsZeroF(Deref(pos.LiquidationPrice))
    THEN Deref(pos.LiquidationPrice)
    ELSE IF ~pos.Info.isNil /\ pos.Info.position.isMap
            /\ IsFloat(pos.Info.position.liquidationPx)
         THEN Num(pos.Info.position.liquidationPx.f)
         ELSE Num(0)

\* info.go:173-182
LiquidationStep(pos) ==
    IF pos.LiquidationPrice # Nil THEN Deref(pos.LiquidationPrice)
    ELSE IF ~pos.Info.isNil /\ pos.Info.position.isMap
            /\ IsFloat(pos.Info.position.liquidationPx)
         THEN Num(pos.Info.position.liquidationPx.f)
         ELSE Num(0)

\* info.go:211-225: if v, ok := Info[k].(float64); ok { x = v }
InfoFloat(info, j, dflt) == IF ~info.isNil /\ IsFloat(j) THEN j.f ELSE dflt

\* info.go:228-238
ExitPlanFloat(info, j) ==
    IF ~info.isNil /\ info.exit_plan.isMap /\ IsFloat(j) THEN j.f ELSE 0

ExitPlanString(info, j) ==
    IF ~info.isNil /\ info.exit_plan.isMap /\ IsString(j) THEN j.s ELSE ""

\* mutant of RestStep: the linked order ids start at 0 instead of -1
RestStepZeroOids(pos, c) ==
    [c EXCEPT
        !.liquidationPrice = LiquidationStep(pos),
        !.unrealizedPnl = OrZero(pos.UnrealizedPnl),
        !.leverage = OrZero(pos.Leverage),
        !.notional = OrZero(pos.Notional),
        !.slOid = InfoFloat(pos.Info, pos.Info.sl_oid, 0),
        !.tpOid = InfoFloat(pos.Info, pos.Info.tp_oid, 0),
        !.entryOid = InfoFloat(pos.Info, pos.Info.entry_oid, 0),
        !.confidence = InfoFloat(pos.Info, pos.Info.confidence, 0),
        !.riskUsd = InfoFloat(pos.Info, pos.Info.risk_usd, 0),
        !.profitTarget = ExitPlanFloat(pos.Info, pos.Info.exit_plan.profit_target),
        !.stopLoss = ExitPlanFloat(pos.Info, pos.Info.exit_plan.stop_loss),
        !.invalidationCondition =
            ExitPlanString(pos.Info, pos.Info.exit_plan.invalidation_condition)]

\* info.go:122-133, 173-239: everything of an iteration but price and orders
RestStep(pos, c) ==
    [c EXCEPT
        !.liquidationPrice = LiquidationStep(pos),
        !.unrealizedPnl = OrZero(pos.UnrealizedPnl),
        !.leverage = OrZero(pos.Leverage),
        !.notional = OrZero(pos.Notional),
        !.slOid = InfoFloat(pos.Info, pos.Info.sl_oid, -1),
        !.tpOid = InfoFloat(pos.Info, pos.Info.tp_oid, -1),
        !.entryOid = InfoFloat(pos.Info, pos.Info.entry_oid, -1),
        !.confidence = InfoFloat(pos.Info, pos.Info.confidence, 0),
        !.riskUsd = InfoFloat(pos.Info, pos.Info.risk_usd, 0),
        !.profitTarget = ExitPlanFloat(pos.Info, pos.Info.exit_plan.profit_target),
        !.stopLoss = ExitPlanFloat(pos.Info, pos.Info.exit_plan.stop_loss),
        !.invalidationCondition =
            ExitPlanString(pos.Info, pos.Info.exit_plan.invalidation_condition)]

(***************************************************************************)
(* One open order, info.go:245-318.                                        *)
(***************************************************************************)
\* info.go:255: isTrigger, ok := order.Info["isTrigger"].(bool); ok && isTrigger
IsTriggerOrder(order) ==
    ~order.Info.isNil /\ IsBool(order.Info.isTrigger) /\ order.Info.isTrigger.b

\* info.go:260-268: the explicit order type, "" when there is none
OrderTypeStr(order) ==
    IF ~order.Info.isNil /\ order.Info.info.isMap /\ IsString(order.Info.info.orderType)
    THEN order.Info.info.orderType.s
    ELSE ""

TypedStopLoss(order) == OrderTypeStr(order) \in {"Stop Market", "Stop Limit"}

TypedTakeProfit(order) ==
    OrderTypeStr(order) \in {"Take Profit Market", "Take Profit"}

\* info.go:272-278: stopPrice first, triggerPrice second, zero otherwise
TriggerPrice(order) ==
    IF order.Info.isNil THEN 0
    ELSE IF IsFloat(order.Info.stopPrice) /\ order.Info.stopPrice.f # 0
         THEN order.Info.stopPrice.f
         ELSE IF IsFloat(order.Info.triggerPrice) /\ order.Info.triggerPrice.f # 0
              THEN order.Info.triggerPrice.f
              ELSE 0

\* info.go:281-283
OrderId(order) == IF order.Id # Nil THEN SscanfD(Deref(order.Id)) ELSE 0

\* mutant of InferRole: the isTrigger flag is not looked at
InferRoleAnyOrder(order, quantity, entryPrice) ==
    LET triggerPrice == TriggerPrice(order)
        none == [isStopLoss |-> FALSE, isTakeProfit |-> FALSE]
    IN  IF triggerPrice # 0 /\ order.Side # Nil
        THEN LET side == Deref(order.Side)
             IN  IF quantity > 0 /\ side = "sell"
                 THEN [isStopLoss |-> triggerPrice < entryPrice,
                       isTakeProfit |-> ~(triggerPrice < entryPrice)]
                 ELSE IF quantity < 0 /\ side = "buy"
                      THEN [isStopLoss |-> triggerPrice > entryPrice,
                            isTakeProfit |-> ~(triggerPrice > entryPrice)]
                      ELSE none
        ELSE none

\* mutant of InferRole: a trigger order without a price is judged as well
InferRoleWithoutPrice(order, quantity, entryPrice) ==
    LET triggerPrice == TriggerPrice(order)
        none == [isStopLoss |-> FALSE, isTakeProfit |-> FALSE]
    IN  IF IsTriggerOrder(order) /\ order.Side # Nil
        THEN LET side == Deref(order.Side)
             IN  IF quantity > 0 /\ side = "sell"
                 THEN [isStopLoss |-> triggerPrice < entryPrice,
                       isTakeProfit |-> ~(triggerPrice < entryPrice)]
                 ELSE IF quantity < 0 /\ side = "buy"
                      THEN [isStopLoss |-> triggerPrice > entryPrice,
                            isTakeProfit |-> ~(triggerPrice > entryPrice)]
                      ELSE none
        ELSE none

\* mutant of InferRole: a short position is judged like a long one, a buy
\* trigger above entry taken for the take-profit
InferRoleShortAsLong(order, quantity, entryPrice) ==
    LET triggerPrice == TriggerPrice(order)
        none == [isStopLoss |-> FALSE, isTakeProfit |-> FALSE]
    IN  IF IsTriggerOrder(order) /\ triggerPrice # 0 /\ order.Side # Nil
        THEN LET side == Deref(order.Side)
             IN  IF (quantity > 0 /\ side = "sell") \/ (quantity < 0 /\ side = "buy")
                 THEN IF triggerPrice < entryPrice
                      THEN [isStopLoss |-> TRUE, isTakeProfit |-> FALSE]
                      ELSE [isStopLoss |-> FALSE, isTakeProfit |-> TRUE]
                 ELSE none
        ELSE none

\* info.go:286-309: the role of an order that carries no explicit type
InferRole(order, quantity, entryPrice) ==
    LET triggerPrice == TriggerPrice(order)
        none == [isStopLoss |-> FALSE, isTakeProfit |-> FALSE]
    IN  IF IsTriggerOrder(order) /\ triggerPrice # 0 /\ order.Side # Nil
        THEN LET side == Deref(order.Side)
             IN  IF quantity > 0
                 THEN IF side = "sell"
                      THEN IF triggerPrice < entryPrice
                           THEN [isStopLoss |-> TRUE, isTakeProfit |-> FALSE]
                           ELSE [isStopLoss |-> FALSE, isTakeProfit |-> TRUE]
                      ELSE none
                 ELSE IF quantity < 0
                      THEN IF side = "buy"
                           THEN IF triggerPrice > entryPrice
                                THEN [isStopLoss |-> TRUE, isTakeProfit |-> FALSE]
                                ELSE [isStopLoss |-> FALSE, isTakeProfit |-> TRUE]
                           ELSE none
                      ELSE none
        ELSE none

\* mutant of Classify: the inference runs for typed orders too and its
\* verdict, when it has one, replaces the type's
ClassifyInferredFirst(order, quantity, entryPrice) ==
    LET inferred == InferRole(order, quantity, entryPrice)
    IN  IF inferred.isStopLoss \/ inferred.isTakeProfit THEN inferred
        ELSE IF TypedStopLoss(order)
             THEN [isStopLoss |-> TRUE, isTakeProfit |-> FALSE]
             ELSE IF TypedTakeProfit(order)
                  THEN [isStopLoss |-> FALSE, isTakeProfit |-> TRUE]
                  ELSE inferred

\* info.go:246-309: isStopLoss / isTakeProfit after both the typed and the
\* inferred classification
Classify(order, quantity, entryPrice) ==
    IF TypedStopLoss(order) THEN [isStopLoss |-> TRUE, isTakeProfit |-> FALSE]
    ELSE IF TypedTakeProfit(order) THEN [isStopLoss |-> FALSE, isTakeProfit |-> TRUE]
    ELSE InferRole(order, quantity, entryPrice)

\* mutant of ApplyOrder: a role that already has a linked order keeps it
ApplyOrderFirstWins(c, order) ==
    LET role == Classify(order, c.quantity, c.entryPrice)
    IN  IF role.isStopLoss
        THEN IF c.slOid # -1 THEN c
             ELSE [c EXCEPT !.stopLoss = TriggerPrice(order),
                            !.slOid = OrderId(order)]
        ELSE IF role.isTakeProfit
             THEN IF c.tpOid # -1 THEN c
                  ELSE [c EXCEPT !.profitTarget = TriggerPrice(order),
                                 !.tpOid = OrderId(order)]
             ELSE c

\* info.go:311-318
ApplyOrder(c, order) ==
    LET role == Classify(order, c.quantity, c.entryPrice)
    IN  IF role.isStopLoss
        THEN [c EXCEPT !.stopLoss = TriggerPrice(order), !.slOid = OrderId(order)]
        ELSE IF role.isTakeProfit
             THEN [c EXCEPT !.profitTarget = TriggerPrice(order),
                            !.tpOid = OrderId(order)]
             ELSE c

\* info.go:322-342
MakePosition(c) ==
    [Symbol |-> c.symbol,
     Quantity |-> c.quantity,
     EntryPrice |-> c.entryPrice,
     CurrentPrice |-> c.currentPrice,
     LiquidationPrice |-> c.liquidationPrice,
     UnrealizedPnl |-> c.unrealizedPnl,
     Leverage |-> c.leverage,
     ExitPlan |-> [ProfitTarget |-> c.profitTarget,
                   StopLoss |-> c.stopLoss,
                   InvalidationCondition |-> c.invalidationCondition],
     Confidence |-> c.confidence,
     RiskUsd |-> c.riskUsd,
     SlOid |-> c.slOid,
     TpOid |-> c.tpOid,
     WaitForFill |-> FALSE,
     EntryOid |-> c.entryOid,
     NotionalUsd |-> c.notional]

\* info.go:103-108
CashOf(balance) ==
    IF ~balance.FreeNil /\ balance.hasUSDC /\ balance.USDC # Nil
    THEN Deref(balance.USDC)
    ELSE 0

\* info.go:122-123, 194-197: the locals of an iteration at their declarations
FreshLocals ==
    [symbol |-> "", quantity |-> 0, entryPrice |-> 0, currentPrice |-> Num(0),
     liquidationPrice |-> Num(0), unrealizedPnl |-> 0, leverage |-> 0,
     notional |-> 0,
     slOid |-> -1, tpOid |-> -1, entryOid |-> -1,
     profitTarget |-> 0, stopLoss |-> 0, invalidationCondition |-> "",
     confidence |-> 0, riskUsd |-> 0]

\* mutant of AccountValue: the cash is left out of the total
AccountValueNoCash(cash, notionalSum) == notionalSum

\* info.go:349
AccountValue(cash, notionalSum) == cash + notionalSum

\* info.go:355-361
MakeAccountInfo(cash, notionalSum, custom) ==
    [TotalReturnPercent |-> 0,
     AvailableCash |-> cash,
     CurrentAccountValue |-> AccountValue(cash, notionalSum),
     Positions |-> custom,
     SharpeRatio |-> 0]

(***************************************************************************)
(* The adapters explored.  A raw position comes with the answers the       *)
(* adapter gives to the two calls made for it (ticker, open orders).       *)
(***************************************************************************)
NoPositionData ==
    [isMap |-> FALSE, positionValue |-> Absent, szi |-> Absent,
     liquidationPx |-> Absent]

PositionData(v, s, l) ==
    [isMap |-> TRUE, positionValue |-> v, szi |-> s, liquidationPx |-> l]

NoExitPlan ==
    [isMap |-> FALSE, profit_target |-> Absent, stop_loss |-> Absent,
     invalidation_condition |-> Absent]

NilInfo ==
    [isNil |-> TRUE, position |-> NoPositionData, sl_oid |-> Absent,
     tp_oid |-> Absent, entry_oid |-> Absent, confidence |-> Absent,
     risk_usd |-> Absent, exit_plan |-> NoExitPlan]

EmptyInfo == [NilInfo EXCEPT !.isNil = FALSE]

AnnotatedInfo ==
    [EmptyInfo EXCEPT
        !.sl_oid = JFloat(5), !.tp_oid = JFloat(6), !.entry_oid = JFloat(4),
        !.confidence = JFloat(1), !.risk_usd = JFloat(3),
        !.exit_plan = [isMap |-> TRUE, profit_target |-> JFloat(120),
                       stop_loss |-> JFloat(80),
                       invalidation_condition |-> JString("close below 80")]]

\* annotations present under the right keys with the wrong dynamic types
MistypedInfo ==
    [EmptyInfo EXCEPT
        !.sl_oid = JString("5"), !.tp_oid = JString("6"),
        !.entry_oid = JString("4"), !.confidence = JString("1"),
        !.risk_usd = JString("3"),
        !.exit_plan = [isMap |-> TRUE, profit_target |-> JString("120"),
                       stop_loss |-> JString("80"),
                       invalidation_condition |-> JFloat(80)]]

BasePosition ==
    [Symbol |-> Ptr("BTC"), Contracts |-> Ptr(2), EntryPrice |-> Ptr(100),
     MarkPrice |-> Ptr(Num(50)), LiquidationPrice |-> Ptr(Num(30)),
     UnrealizedPnl |-> Ptr(5), Leverage |-> Ptr(3), Notional |-> Ptr(200),
     Info |-> NilInfo]

\* a raw position with every optional field missing
BarePosition ==
    [Symbol |-> Nil, Contracts |-> Nil, EntryPrice |-> Nil, MarkPrice |-> Nil,
     LiquidationPrice |-> Nil, UnrealizedPnl |-> Nil, Leverage |-> Nil,
     Notional |-> Nil, Info |-> NilInfo]

TickerFails == [err |-> TRUE, Last |-> Nil]

TickerNoLast == [err |-> FALSE, Last |-> Nil]

TickerLast(x) == [err |-> FALSE, Last |-> Ptr(x)]

Tickers == {TickerFails, TickerNoLast, TickerLast(Num(60))}

OrdersFail == [err |-> TRUE, orders |-> <<>>]

OrdersOk(os) == [err |-> FALSE, orders |-> os]

WithAnswers(raw, ticker, orders) ==
    [raw |-> raw, ticker |-> ticker, openOrders |-> orders]

MarkPrices == {Nil, Ptr(NaN), Ptr(Num(0)), Ptr(PosInf), Ptr(Num(50))}

PriceInfos ==
    {NilInfo, EmptyInfo} \cup
    {[EmptyInfo EXCEPT !.position = PositionData(v, s, Absent)] :
        v \in {JFloat(1000), JFloat(0), JFloat(7), JString("1000.0"), Absent},
        s \in {JFloat(10), JFloat(-10), JFloat(0), JString("10.0"), Absent}}

\* one position, every combination of mark price, auxiliary data and ticker
PricePositions ==
    {WithAnswers([BasePosition EXCEPT !.MarkPrice = m, !.Info = i], t, OrdersFail) :
        m \in MarkPrices, i \in PriceInfos, t \in Tickers}

LiquidationInfos ==
    {NilInfo, EmptyInfo} \cup
    {[EmptyInfo EXCEPT !.position = PositionData(Absent, Absent, l)] :
        l \in {JFloat(40), JString("40.0"), Absent}}

\* one position, every combination of the two liquidation price sources
LiquidationPositions ==
    {WithAnswers([BasePosition EXCEPT !.LiquidationPrice = l, !.Info = i],
                 TickerFails, OrdersOk(<<>>)) :
        l \in {Nil, Ptr(Num(0)), Ptr(Num(30)), Ptr(NaN)}, i \in LiquidationInfos}

\* one position, annotations present, mistyped or missing
AnnotationPositions ==
    {WithAnswers([p EXCEPT !.Info = i], TickerNoLast, o) :
        p \in {BasePosition, BarePosition},
        i \in {NilInfo, EmptyInfo, AnnotatedInfo, MistypedInfo},
        o \in {OrdersFail, OrdersOk(<<>>)}}

Order(id, side, isTrigger, orderType, stopPrice, triggerPrice) ==
    [Id |-> id, Side |-> side,
     Info |-> [isNil |-> FALSE, isTrigger |-> isTrigger,
               info |-> [isMap |-> TRUE, orderType |-> orderType],
               stopPrice |-> stopPrice, triggerPrice |-> triggerPrice]]

\* an order whose Info map is nil
BareOrder(id, side) ==
    [Id |-> id, Side |-> side,
     Info |-> [isNil |-> TRUE, isTrigger |-> Absent,
               info |-> [isMap |-> FALSE, orderType |-> Absent],
               stopPrice |-> Absent, triggerPrice |-> Absent]]

\* trigger orders without an explicit type, below, at and above the entry
\* price of 100, on either side, without side, without price
UntypedTriggers ==
    {Order(Ptr(<<"7">>), Ptr(sd), JBool(TRUE), Absent, Absent, JFloat(px)) :
        sd \in {"buy", "sell"}, px \in {90, 100, 110}}
    \cup {Order(Ptr(<<"7">>), Nil, JBool(TRUE), Absent, Absent, JFloat(90)),
          Order(Ptr(<<"7">>), Ptr("sell"), JBool(TRUE), Absent, Absent, Absent)}

\* explicitly typed orders, with and without a price
TypedOrders ==
    {Order(Ptr(<<"8">>), Ptr("buy"), Absent, JString(ty), JFloat(110), Absent) :
        ty \in {"Stop Market", "Stop Limit", "Take Profit Market", "Take Profit",
                "Limit"}}
    \cup {Order(Ptr(<<"8">>), Ptr("buy"), Absent, JString(ty), Absent, Absent) :
            ty \in {"Stop Market", "Take Profit"}}

\* flagged trigger orders that carry an explicit type as well: sells below
\* and above the entry price of 100
TypedTriggers ==
    {Order(Ptr(<<"6">>), Ptr("sell"), JBool(TRUE), JString(ty), Absent, JFloat(px)) :
        ty \in {"Stop Limit", "Take Profit Market"}, px \in {90, 110}}

\* untyped sell triggers at 90 whose id is missing or not a plain number
OddIdOrders ==
    {Order(id, Ptr("sell"), JBool(TRUE), Absent, Absent, JFloat(90)) :
        id \in {Nil, Ptr(<<"a", "b", "c">>), Ptr(<<"1", "2", "x">>),
                Ptr(<<"-", "3">>)}}

\* orders that are not flagged as trigger orders
PlainOrders ==
    {Order(Ptr(<<"9">>), Ptr("sell"), JBool(FALSE), Absent, Absent, JFloat(90)),
     Order(Ptr(<<"9">>), Ptr("sell"), JString("true"), Absent, Absent, JFloat(90)),
     BareOrder(Ptr(<<"9">>), Ptr("sell"))}

\* both price fields present
TwoPriceOrders ==
    {Order(Ptr(<<"7">>), Ptr("sell"), JBool(TRUE), Absent, sp, JFloat(110)) :
        sp \in {JFloat(90), JFloat(0), JString("90.0")}}

Orders ==
    UntypedTriggers \cup TypedOrders \cup TypedTriggers \cup OddIdOrders
    \cup PlainOrders \cup TwoPriceOrders

RECURSIVE ListsUpTo(_, _)
ListsUpTo(S, n) ==
    IF n = 0 THEN {<<>>}
    ELSE LET shorter == ListsUpTo(S, n - 1)
         IN  shorter \cup {Append(l, x) : l \in {m \in shorter : Len(m) = n - 1},
                                          x \in S}

OrderAnswers == {OrdersFail} \cup {OrdersOk(os) : os \in ListsUpTo(Orders, MaxOrders)}

\* long, short and flat positions entered at 100, a long one without entry
\* price, and a long one that carries an annotated exit plan
DirectedPositions ==
    {[BasePosition EXCEPT !.Contracts = Ptr(q)] : q \in {2, -2, 0}}
    \cup {[BasePosition EXCEPT !.EntryPrice = Nil],
          [BasePosition EXCEPT !.Info = AnnotatedInfo]}

\* one position, every list of open orders
OrderPositions ==
    {WithAnswers(p, TickerFails, o) : p \in DirectedPositions, o \in OrderAnswers}

\* positions of the accounts that hold several: different symbols, notional
\* values (one missing) and price sources
PortfolioPositions ==
    {WithAnswers(BasePosition, TickerFails, OrdersOk(<<>>)),
     WithAnswers([BarePosition EXCEPT !.Symbol = Ptr("ETH")], TickerFails, OrdersFail),
     WithAnswers([BasePosition EXCEPT !.Symbol = Ptr("SOL"), !.Notional = Ptr(7),
                                      !.MarkPrice = Ptr(NaN)],
                 TickerLast(Num(60)),
                 OrdersOk(<<Order(Ptr(<<"7">>), Ptr("sell"), JBool(TRUE), Absent,
                                  Absent, JFloat(90))>>)),
     WithAnswers([BasePosition EXCEPT !.Symbol = Ptr("XRP"), !.Contracts = Ptr(-2),
                                      !.Notional = Ptr(-40)],
                 TickerFails, OrdersFail)}

PositionLists ==
    {<<p>> : p \in PricePositions \cup LiquidationPositions
                   \cup AnnotationPositions \cup OrderPositions}
    \cup ListsUpTo(PortfolioPositions, MaxPositions)

BalanceFails == [err |-> TRUE, FreeNil |-> TRUE, hasUSDC |-> FALSE, USDC |-> Nil]

\* Free is nil; Free has no "USDC" key; the key maps to nil; the key maps to 1000
Balances ==
    {[err |-> FALSE, FreeNil |-> TRUE, hasUSDC |-> FALSE, USDC |-> Nil],
     [err |-> FALSE, FreeNil |-> FALSE, hasUSDC |-> FALSE, USDC |-> Nil],
     [err |-> FALSE, FreeNil |-> FALSE, hasUSDC |-> TRUE, USDC |-> Nil],
     [err |-> FALSE, FreeNil |-> FALSE, hasUSDC |-> TRUE, USDC |-> Ptr(1000)]}

Exchanges ==
    {[balance |-> BalanceFails, positionsErr |-> e, positions |-> <<>>] :
        e \in BOOLEAN}
    \cup {[balance |-> b, positionsErr |-> TRUE, positions |-> <<>>] : b \in Balances}
    \cup {[balance |-> b, positionsErr |-> FALSE, positions |-> ps] :
            b \in {x \in Balances : x.USDC # Nil}, ps \in PositionLists}
    \cup {[balance |-> b, positionsErr |-> FALSE, positions |-> ps] :
            b \in Balances, ps \in ListsUpTo(PortfolioPositions, MaxPositions)}

(***************************************************************************)
(* GetAccountInfo, info.go:95-362.                                         *)
(***************************************************************************)
Call(op, i) == [op |-> op, pos |-> i]

Pending == [err |-> "", info |-> Nil]

Failed(msg) == [err |-> msg, info |-> Nil]

Returned(v) == [err |-> "", info |-> Ptr(v)]

\* info.go:97-108
FetchBalance ==
    /\ pc = "start"
    /\ calls' = Append(calls, Call("FetchBalance", 0))
    /\ IF exchange.balance.err
       THEN /\ result' = Failed("error fetching balance")
            /\ pc' = "done"
            /\ UNCHANGED availableCash
       ELSE /\ availableCash' = CashOf(exchange.balance)
            /\ pc' = "positions"
            /\ UNCHANGED result
    /\ UNCHANGED <<exchange, positions, idx, cur, oidx, openOrders,
                   customPositions, totalNotional>>
    /\ UNCHANGED <<mktVars, reportVars, llmVars>>

\* mutant of FetchPositions: the error is dropped and the loop runs over no
\* position
FetchPositionsIgnoresError ==
    /\ pc = "positions"
    /\ calls' = Append(calls, Call("FetchPositions", 0))
    /\ positions' = [i \in 1..Len(exchange.positions) |-> exchange.positions[i].raw]
    /\ pc' = "loop"
    /\ UNCHANGED <<exchange, availableCash, idx, cur, oidx, openOrders,
                   customPositions, totalNotional, result>>
    /\ UNCHANGED <<mktVars, reportVars, llmVars>>

\* info.go:111-118
FetchPositions ==
    /\ pc = "positions"
    /\ calls' = Append(calls, Call("FetchPositions", 0))
    /\ IF exchange.positionsErr
       THEN /\ result' = Failed("error fetching positions")
            /\ pc' = "done"
            /\ UNCHANGED positions
       ELSE /\ positions' = [i \in 1..Len(exchange.positions) |->
                                exchange.positions[i].raw]
            /\ pc' = "loop"
            /\ UNCHANGED result
    /\ UNCHANGED <<exchange, availableCash, idx, cur, oidx, openOrders,
                   customPositions, totalNotional>>
    /\ UNCHANGED <<mktVars, reportVars, llmVars>>

\* info.go:120-163: the iteration's locals, and the price from the mark price
\* or the auxiliary data
BeginPosition ==
    /\ pc = "loop"
    /\ idx <= Len(positions)
    /\ LET pos == positions[idx]
           price == PriceBeforeTicker(pos)
       IN  /\ cur' = [FreshLocals EXCEPT !.symbol = OrEmpty(pos.Symbol),
                                         !.quantity = OrZero(pos.Contracts),
                                         !.entryPrice = OrZero(pos.EntryPrice),
                                         !.currentPrice = price]
           /\ pc' = IF NeedsTicker(price) THEN "ticker" ELSE "rest"
    /\ UNCHANGED <<exchange, calls, availableCash, positions, idx, oidx,
                   openOrders, customPositions, totalNotional, result>>
    /\ UNCHANGED <<mktVars, reportVars, llmVars>>

\* mutant of FetchTicker: a failed lookup is tried a second time
FetchTickerRetries ==
    /\ pc = "ticker"
    /\ calls' = Append(calls, Call("FetchTicker", idx))
    /\ IF exchange.positions[idx].ticker.err /\ Call("FetchTicker", idx) \notin
                                                   {calls[k] : k \in 1..Len(calls)}
       THEN UNCHANGED <<cur, pc>>
       ELSE /\ cur' = [cur EXCEPT !.currentPrice =
                          TickerStep(cur.currentPrice, exchange.positions[idx].ticker)]
            /\ pc' = "rest"
    /\ UNCHANGED <<exchange, availableCash, positions, idx, oidx, openOrders,
                   customPositions, totalNotional, result>>
    /\ UNCHANGED <<mktVars, reportVars, llmVars>>

\* mutant of FetchTicker: a failed lookup is returned to the caller
FetchTickerEscalates ==
    /\ pc = "ticker"
    /\ calls' = Append(calls, Call("FetchTicker", idx))
    /\ IF exchange.positions[idx].ticker.err
       THEN /\ result' = Failed("error fetching ticker")
            /\ pc' = "done"
            /\ UNCHANGED cur
       ELSE /\ cur' = [cur EXCEPT !.currentPrice =
                          TickerStep(cur.currentPrice, exchange.positions[idx].ticker)]
            /\ pc' = "rest"
            /\ UNCHANGED result
    /\ UNCHANGED <<exchange, availableCash, positions, idx, oidx, openOrders,
                   customPositions, totalNotional>>
    /\ UNCHANGED <<mktVars, reportVars, llmVars>>

\* info.go:166-171
FetchTicker ==
    /\ pc = "ticker"
    /\ calls' = Append(calls, Call("FetchTicker", idx))
    /\ cur' = [cur EXCEPT !.currentPrice =
                  TickerStep(cur.currentPrice, exchange.positions[idx].ticker)]
    /\ pc' = "rest"
    /\ UNCHANGED <<exchange, availableCash, positions, idx, oidx, openOrders,
                   customPositions, totalNotional, result>>
    /\ UNCHANGED <<mktVars, reportVars, llmVars>>

\* info.go:173-239
ResolveRest ==
    /\ pc = "rest"
    /\ cur' = RestStep(positions[idx], cur)
    /\ pc' = "orders"
    /\ UNCHANGED <<exchange, calls, availableCash, positions, idx, oidx,
                   openOrders, customPositions, totalNotional, result>>
    /\ UNCHANGED <<mktVars, reportVars, llmVars>>

\* mutant of FetchOpenOrders: an error of the call is returned to the caller
FetchOpenOrdersEscalates ==
    /\ pc = "orders"
    /\ calls' = Append(calls, Call("FetchOpenOrders", idx))
    /\ IF exchange.positions[idx].openOrders.err
       THEN /\ result' = Failed("error fetching open orders")
            /\ pc' = "done"
            /\ UNCHANGED <<openOrders, oidx>>
       ELSE /\ openOrders' = exchange.positions[idx].openOrders.orders
            /\ oidx' = 1
            /\ pc' = "order"
            /\ UNCHANGED result
    /\ UNCHANGED <<exchange, availableCash, positions, idx, cur,
                   customPositions, totalNotional>>
    /\ UNCHANGED <<mktVars, reportVars, llmVars>>

\* info.go:242-243: after an error the order loop is skipped
FetchOpenOrders ==
    /\ pc = "orders"
    /\ calls' = Append(calls, Call("FetchOpenOrders", idx))
    /\ openOrders' = IF exchange.positions[idx].openOrders.err
                     THEN <<>>
                     ELSE exchange.positions[idx].openOrders.orders
    /\ oidx' = 1
    /\ pc' = "order"
    /\ UNCHANGED <<exchange, availableCash, positions, idx, cur,
                   customPositions, totalNotional, result>>
    /\ UNCHANGED <<mktVars, reportVars, llmVars>>

\* info.go:244-319: one iteration of the order loop
ProcessOrder ==
    /\ pc = "order"
    /\ oidx <= Len(openOrders)
    /\ cur' = ApplyOrder(cur, openOrders[oidx])
    /\ oidx' = oidx + 1
    /\ UNCHANGED <<exchange, pc, calls, availableCash, positions, idx,
                   openOrders, customPositions, totalNotional, result>>
    /\ UNCHANGED <<mktVars, reportVars, llmVars>>

\* info.go:322-346
AppendPosition ==
    /\ pc = "order"
    /\ oidx > Len(openOrders)
    /\ customPositions' = Append(customPositions, MakePosition(cur))
    /\ totalNotional' = totalNotional + cur.notional
    /\ idx' = idx + 1
    /\ pc' = "loop"
    /\ UNCHANGED <<exchange, calls, availableCash, positions, cur, oidx,
                   openOrders, result>>
    /\ UNCHANGED <<mktVars, reportVars, llmVars>>

\* info.go:348-361
ReturnAccountInfo ==
    /\ pc = "loop"
    /\ idx > Len(positions)
    /\ result' = Returned(MakeAccountInfo(availableCash, totalNotional,
                                          customPositions))
    /\ pc' = "done"
    /\ UNCHANGED <<exchange, calls, availableCash, positions, idx, cur, oidx,
                   openOrders, customPositions, totalNotional>>
    /\ UNCHANGED <<mktVars, reportVars, llmVars>>

NextAccount ==
    \/ FetchBalance
    \/ FetchPositions
    \/ BeginPosition
    \/ FetchTicker
    \/ ResolveRest
    \/ FetchOpenOrders
    \/ ProcessOrder
    \/ AppendPosition
    \/ ReturnAccountInfo

(***************************************************************************)
(* GetMarketData, part_000:111-246.                                        *)
(*                                                                         *)
(* A candle series is kept as its length and its last candle, a column of  *)
(* it as its length and its last value.  An indicator series is kept as    *)
(* its length and the term that names its last value: which indicator, of  *)
(* which period, over which input.  go-talib is not part of the            *)
(* repository: on an input longer than the indicator's lookback it returns *)
(* a series as long as its input; on a shorter input it either panics or   *)
(* returns a meaningless series as long as its input, and the model        *)
(* explores both (`shortInput`).                                           *)
(***************************************************************************)
Candle(c, h, l, v) == [Close |-> c, High |-> h, Low |-> l, Volume |-> v]

NoCandle == Candle(0, 0, 0, 0)

CandleSeries(n, c) == [len |-> n, last |-> IF n = 0 THEN NoCandle ELSE c]

\* part_000:127-130, 155-164
Column(series, field) ==
    [len |-> series.len, last |-> IF series.len = 0 THEN 0 ELSE series.last[field]]

NoColumn == [len |-> 0, last |-> 0]

Term(ind, period, input, valid) ==
    [ind |-> ind, period |-> period, len |-> input.len, last |-> input.last,
     valid |-> valid]

NoTerm == [ind |-> "", period |-> 0, len |-> 0, last |-> NoCandle, valid |-> FALSE]

NoSeries == [len |-> 0, last |-> NoTerm]

\* talib.Ema, talib.Rsi, talib.Atr, talib.Sma, talib.Macd (12, 26, 9)
Lookback(ind, period) ==
    CASE ind = "EMA" -> period - 1
      [] ind = "SMA" -> period - 1
      [] ind = "RSI" -> period
      [] ind = "ATR" -> period
      [] ind = "MACD" -> (26 - 1) + (9 - 1)

Sufficient(ind, period, input) == input.len > Lookback(ind, period)

TalibPanics(ind, period, input, shortInput) ==
    ~Sufficient(ind, period, input) /\ shortInput = "panic"

Talib(ind, period, input) ==
    [len |-> input.len,
     last |-> IF input.len = 0 THEN NoTerm
              ELSE Term(ind, period, input, Sufficient(ind, period, input))]

\* part_000:133-136
Indicators1m == {<<"EMA", 20>>, <<"MACD", 12>>, <<"RSI", 7>>, <<"RSI", 14>>}

\* part_000:167-172, 182
Indicators4h ==
    {<<"EMA", 20>>, <<"EMA", 50>>, <<"ATR", 3>>, <<"ATR", 14>>, <<"MACD", 12>>,
     <<"RSI", 14>>, <<"SMA", 20>>}

\* x[len(x)-1] on an empty slice: index out of range
IndexPanics(series) == series.len = 0

\* part_000:126-142: whether the 1m computation panics on these candles
Compute1mPanics(candles, shortInput) ==
    \/ \E i \in Indicators1m : TalibPanics(i[1], i[2], candles, shortInput)
    \/ IndexPanics(candles)

\* part_000:154-183
Compute4hPanics(candles, shortInput) ==
    \/ \E i \in Indicators4h : TalibPanics(i[1], i[2], candles, shortInput)
    \/ IndexPanics(candles)

\* part_000:126-142
Locals1m(candles) ==
    [closes1m |-> Column(candles, "Close"),
     ema20 |-> Talib("EMA", 20, candles),
     macdHist |-> Talib("MACD", 12, candles),
     rsi7 |-> Talib("RSI", 7, candles),
     rsi14 |-> Talib("RSI", 14, candles),
     currentEma20 |-> Talib("EMA", 20, candles).last,
     currentMacd |-> Talib("MACD", 12, candles).last,
     currentRsi7 |-> Talib("RSI", 7, candles).last,
     currentPrice |-> Column(candles, "Close").last]

\* part_000:154-183
Locals4h(candles) ==
    [closes4h |-> Column(candles, "Close"),
     highs4h |-> Column(candles, "High"),
     lows4h |-> Column(candles, "Low"),
     volumes4h |-> Column(candles, "Volume"),
     ema20_4h |-> Talib("EMA", 20, candles),
     ema50_4h |-> Talib("EMA", 50, candles),
     atr3 |-> Talib("ATR", 3, candles),
     atr14 |-> Talib("ATR", 14, candles),
     macdHist4h |-> Talib("MACD", 12, candles),
     rsi14_4h |-> Talib("RSI", 14, candles),
     currentEma20_4h |-> Talib("EMA", 20, candles).last,
     currentEma50_4h |-> Talib("EMA", 50, candles).last,
     currentAtr3 |-> Talib("ATR", 3, candles).last,
     currentAtr14 |-> Talib("ATR", 14, candles).last,
     currentVolume |-> Column(candles, "Volume").last,
     currentAverageVolume |-> Talib("SMA", 20, candles).last]

NoLocals1m ==
    [closes1m |-> NoColumn, ema20 |-> NoSeries, macdHist |-> NoSeries,
     rsi7 |-> NoSeries, rsi14 |-> NoSeries, currentEma20 |-> NoTerm,
     currentMacd |-> NoTerm, currentRsi7 |-> NoTerm, currentPrice |-> 0]

NoLocals4h ==
    [closes4h |-> NoColumn, highs4h |-> NoColumn, lows4h |-> NoColumn,
     volumes4h |-> NoColumn, ema20_4h |-> NoSeries, ema50_4h |-> NoSeries,
     atr3 |-> NoSeries, atr14 |-> NoSeries, macdHist4h |-> NoSeries,
     rsi14_4h |-> NoSeries, currentEma20_4h |-> NoTerm,
     currentEma50_4h |-> NoTerm, currentAtr3 |-> NoTerm, currentAtr14 |-> NoTerm,
     currentVolume |-> 0, currentAverageVolume |-> NoTerm]

\* part_000:186-199, 201-214: the value a supplementary call leaves in its
\* variable; a returned error, a missing amount and a recovered panic leave 0
Supplementary(answer) == IF answer.kind = "value" THEN answer.value ELSE 0

\* part_000:216-245
MakeMarketData(symbol, m1, m4, openInterestValue, fundingRateValue) ==
    [Symbol |-> symbol,
     Closes1m |-> m1.closes1m, EMA20_1m |-> m1.ema20,
     MACDHist_1m |-> m1.macdHist, RSI7_1m |-> m1.rsi7, RSI14_1m |-> m1.rsi14,
     CurrentPrice |-> m1.currentPrice, CurrentEMA20 |-> m1.currentEma20,
     CurrentMACD |-> m1.currentMacd, CurrentRSI7 |-> m1.currentRsi7,
     Closes4h |-> m4.closes4h, Highs4h |-> m4.highs4h, Lows4h |-> m4.lows4h,
     Volumes4h |-> m4.volumes4h, EMA20_4h |-> m4.ema20_4h,
     EMA50_4h |-> m4.ema50_4h, ATR3_4h |-> m4.atr3, ATR14_4h |-> m4.atr14,
     MACDHist_4h |-> m4.macdHist4h, RSI14_4h |-> m4.rsi14_4h,
     CurrentEMA20_4h |-> m4.currentEma20_4h,
     CurrentEMA50_4h |-> m4.currentEma50_4h,
     CurrentATR3 |-> m4.currentAtr3, CurrentATR14 |-> m4.currentAtr14,
     CurrentVolume |-> m4.currentVolume, AvgVolume |-> m4.currentAverageVolume,
     OpenInterest |-> openInterestValue, FundingRate |-> fundingRateValue]

\* candle counts around the lookbacks of the indicators, up to the limits the
\* code asks for (part_000:120, 148)
CandleCounts1m == {0, 1, 8, 20, 33, 34, 1000}

CandleCounts4h == {0, 1, 15, 34, 49, 50, 100}

LastCandles == {Candle(100, 105, 95, 10), Candle(90, 99, 88, 25)}

OhlcvFails == [err |-> TRUE, candles |-> CandleSeries(0, NoCandle)]

OhlcvOk(series) == [err |-> FALSE, candles |-> series]

OhlcvAnswers(counts) ==
    {OhlcvFails} \cup {OhlcvOk(CandleSeries(n, c)) : n \in counts, c \in LastCandles}

\* a supplementary call panics, returns an error, returns no amount, or a value
SupplementaryAnswers(v) ==
    {[kind |-> k, value |-> 0] : k \in {"panic", "error", "missing"}}
    \cup {[kind |-> "value", value |-> v]}

Markets ==
    [symbol : {"BTC", "ETH"},
     ohlcv1m : OhlcvAnswers(CandleCounts1m),
     ohlcv4h : OhlcvAnswers(CandleCounts4h),
     openInterest : SupplementaryAnswers(500),
     fundingRate : SupplementaryAnswers(3),
     shortInput : {"panic", "garbage"}]

MCall(op, timeframe) == [op |-> op, timeframe |-> timeframe]

MPending == [err |-> Nil, data |-> Nil]

MFailed(what, symbol) == [err |-> Ptr([what |-> what, symbol |-> symbol]), data |-> Nil]

MReturned(d) == [err |-> Nil, data |-> Ptr(d)]

NoLocals ==
    [m1 |-> NoLocals1m, m4 |-> NoLocals4h, openInterestValue |-> 0,
     fundingRateValue |-> 0]

\* mutant of FetchOHLCV1m: the error is dropped and the empty series used
FetchOHLCV1mIgnoresError ==
    /\ mpc = "start"
    /\ mcalls' = Append(mcalls, MCall("FetchOHLCV", "1m"))
    /\ mpc' = "compute1m"
    /\ UNCHANGED <<market, mloc, mresult>>
    /\ UNCHANGED <<acctVars, reportVars, llmVars>>

\* part_000:117-124
FetchOHLCV1m ==
    /\ mpc = "start"
    /\ mcalls' = Append(mcalls, MCall("FetchOHLCV", "1m"))
    /\ IF market.ohlcv1m.err
       THEN /\ mresult' = MFailed("error fetching 1m data", market.symbol)
            /\ mpc' = "done"
       ELSE /\ mpc' = "compute1m"
            /\ UNCHANGED mresult
    /\ UNCHANGED <<market, mloc>>
    /\ UNCHANGED <<acctVars, reportVars, llmVars>>

\* part_000:126-142
Compute1m ==
    /\ mpc = "compute1m"
    /\ IF Compute1mPanics(market.ohlcv1m.candles, market.shortInput)
       THEN /\ mpc' = "panic"
            /\ UNCHANGED mloc
       ELSE /\ mpc' = "fetch4h"
            /\ mloc' = [mloc EXCEPT !.m1 = Locals1m(market.ohlcv1m.candles)]
    /\ UNCHANGED <<market, mcalls, mresult>>
    /\ UNCHANGED <<acctVars, reportVars, llmVars>>

\* part_000:145-152
FetchOHLCV4h ==
    /\ mpc = "fetch4h"
    /\ mcalls' = Append(mcalls, MCall("FetchOHLCV", "4h"))
    /\ IF market.ohlcv4h.err
       THEN /\ mresult' = MFailed("error fetching 4h data", market.symbol)
            /\ mpc' = "done"
       ELSE /\ mpc' = "compute4h"
            /\ UNCHANGED mresult
    /\ UNCHANGED <<market, mloc>>
    /\ UNCHANGED <<acctVars, reportVars, llmVars>>

\* part_000:154-183
Compute4h ==
    /\ mpc = "compute4h"
    /\ IF Compute4hPanics(market.ohlcv4h.candles, market.shortInput)
       THEN /\ mpc' = "panic"
            /\ UNCHANGED mloc
       ELSE /\ mpc' = "openInterest"
            /\ mloc' = [mloc EXCEPT !.m4 = Locals4h(market.ohlcv4h.candles)]
    /\ UNCHANGED <<market, mcalls, mresult>>
    /\ UNCHANGED <<acctVars, reportVars, llmVars>>

\* mutant of FetchOpenInterest: no deferred recover around the call
FetchOpenInterestNoRecover ==
    /\ mpc = "openInterest"
    /\ mcalls' = Append(mcalls, MCall("FetchOpenInterest", ""))
    /\ mloc' = [mloc EXCEPT !.openInterestValue = Supplementary(market.openInterest)]
    /\ mpc' = IF market.openInterest.kind = "panic" THEN "panic" ELSE "fundingRate"
    /\ UNCHANGED <<market, mresult>>
    /\ UNCHANGED <<acctVars, reportVars, llmVars>>

\* part_000:186-199: a panic inside the closure is recovered and logged, an
\* error is logged; either way the procedure goes on
FetchOpenInterest ==
    /\ mpc = "openInterest"
    /\ mcalls' = Append(mcalls, MCall("FetchOpenInterest", ""))
    /\ mloc' = [mloc EXCEPT !.openInterestValue = Supplementary(market.openInterest)]
    /\ mpc' = "fundingRate"
    /\ UNCHANGED <<market, mresult>>
    /\ UNCHANGED <<acctVars, reportVars, llmVars>>

\* part_000:201-214
FetchFundingRate ==
    /\ mpc = "fundingRate"
    /\ mcalls' = Append(mcalls, MCall("FetchFundingRate", ""))
    /\ mloc' = [mloc EXCEPT !.fundingRateValue = Supplementary(market.fundingRate)]
    /\ mpc' = "return"
    /\ UNCHANGED <<market, mresult>>
    /\ UNCHANGED <<acctVars, reportVars, llmVars>>

\* part_000:216-245
ReturnMarketData ==
    /\ mpc = "return"
    /\ mresult' = MReturned(MakeMarketData(market.symbol, mloc.m1, mloc.m4,
                                           mloc.openInterestValue,
                                           mloc.fundingRateValue))
    /\ mpc' = "done"
    /\ UNCHANGED <<market, mcalls, mloc>>
    /\ UNCHANGED <<acctVars, reportVars, llmVars>>

NextMarket ==
    \/ FetchOHLCV1m
    \/ Compute1m
    \/ FetchOHLCV4h
    \/ Compute4h
    \/ FetchOpenInterest
    \/ FetchFundingRate
    \/ ReturnMarketData

(***************************************************************************)
(* Text.  A text is a sequence of strings, its pieces, and stands for      *)
(* their concatenation; the literal parts of a format string and each      *)
(* formatted argument are pieces of their own, and so is every attribute   *)
(* name of a rendered position.                                            *)
(*                                                                         *)
(* The verbs of package fmt used by the renderers, on the values the       *)
(* snapshots hold.                                                         *)
(***************************************************************************)
RECURSIVE Pow10(_)
Pow10(k) == IF k = 0 THEN 1 ELSE 10 * Pow10(k - 1)

\* k written with exactly w decimal digits
RECURSIVE Padded(_, _)
Padded(k, w) == IF w = 0 THEN "" ELSE Padded(k \div 10, w - 1) \o ToString(k % 10)

\* a / b rounded to the nearest integer, a tie to the even one (a >= 0, b > 0)
RoundDiv(a, b) ==
    LET q == a \div b
        r == a % b
    IN  IF 2 * r > b \/ (2 * r = b /\ q % 2 = 1) THEN q + 1 ELSE q

\* %.<prec>f
SprintfF(x, prec) ==
    IF IsNaN(x) THEN "NaN"
    ELSE IF x.d = 0 THEN (IF x.n > 0 THEN "+Inf" ELSE "-Inf")
    ELSE LET scaled == RoundDiv(Abs(x.n) * Pow10(prec), x.d)
             whole == scaled \div Pow10(prec)
             frac == scaled % Pow10(prec)
         IN  (IF x.n < 0 THEN "-" ELSE "") \o ToString(whole)
             \o (IF prec = 0 THEN "" ELSE "." \o Padded(frac, prec))

\* the decimal exponent of k >= 1
RECURSIVE Exponent10(_)
Exponent10(k) == IF k < 10 THEN 0 ELSE 1 + Exponent10(k \div 10)

\* k >= 1 as a mantissa of `digits` digits and a decimal exponent
Scientific(k, digits) ==
    LET e == Exponent10(k)
        m == IF e < digits THEN k * Pow10(digits - 1 - e)
             ELSE RoundDiv(k, Pow10(e - (digits - 1)))
    IN  IF m = Pow10(digits) THEN [m |-> Pow10(digits - 1), e |-> e + 1]
        ELSE [m |-> m, e |-> e]

\* the w digits of k without the zeros at their end
RECURSIVE Stripped(_, _)
Stripped(k, w) ==
    IF w = 0 THEN ""
    ELSE IF k % 10 = 0 THEN Stripped(k \div 10, w - 1) ELSE Padded(k, w)

\* %.2e of an integral value
SprintfE2(i) ==
    IF i = 0 THEN "0.00e+00"
    ELSE LET sc == Scientific(Abs(i), 3)
         IN  (IF i < 0 THEN "-" ELSE "") \o ToString(sc.m \div 100) \o "."
             \o Padded(sc.m % 100, 2) \o "e+" \o Padded(sc.e, 2)

\* %.6g of an integral value: plain below 10^6, else the shortest mantissa
\* of at most six digits and an exponent
SprintfG6(i) ==
    IF Abs(i) < 1000000 THEN ToString(i)
    ELSE LET sc == Scientific(Abs(i), 6)
             rest == Stripped(sc.m % 100000, 5)
         IN  (IF i < 0 THEN "-" ELSE "") \o ToString(sc.m \div 100000)
             \o (IF rest = "" THEN "" ELSE "." \o rest)
             \o "e+" \o Padded(sc.e, 2)

\* %d
SprintfD(i) == ToString(i)

\* %t
SprintfT(b) == IF b THEN "true" ELSE "false"

\* %.<prec>f of the last value of an indicator series, which go-talib
\* computed: the text names the value
SprintfTerm(t, prec) == "%." \o ToString(prec) \o "f of " \o ToString(t)

(***************************************************************************)
(* AccountInfo.Format, info.go:57-92.                                      *)
(***************************************************************************)
\* mutant of PositionEntry: the notional value is rendered after the
\* leverage instead of last
PositionEntryNotionalEarly(pos) ==
    <<"{'", "symbol", "': '", pos.Symbol,
      "', '", "quantity", "': ", SprintfF(Num(pos.Quantity), 2),
      ", '", "entry_price", "': ", SprintfF(Num(pos.EntryPrice), 2),
      ", '", "current_price", "': ", SprintfF(pos.CurrentPrice, 5),
      ", '", "liquidation_price", "': ", SprintfF(pos.LiquidationPrice, 2),
      ", '", "unrealized_pnl", "': ", SprintfF(Num(pos.UnrealizedPnl), 2),
      ", '", "leverage", "': ", SprintfF(Num(pos.Leverage), 0),
      ", '", "notional_usd", "': ", SprintfF(Num(pos.NotionalUsd), 2),
      ", '", "exit_plan", "': {'",
      "profit_target", "': ", SprintfG6(pos.ExitPlan.ProfitTarget),
      ", '", "stop_loss", "': ", SprintfG6(pos.ExitPlan.StopLoss),
      ", '", "invalidation_condition", "': '", pos.ExitPlan.InvalidationCondition,
      "'}, '", "confidence", "': ", SprintfF(Num(pos.Confidence), 2),
      ", '", "risk_usd", "': ", SprintfF(Num(pos.RiskUsd), 3),
      ", '", "sl_oid", "': ", SprintfD(pos.SlOid),
      ", '", "tp_oid", "': ", SprintfD(pos.TpOid),
      ", '", "wait_for_fill", "': ", SprintfT(pos.WaitForFill),
      ", '", "entry_oid", "': ", SprintfD(pos.EntryOid),
      "} ">>

\* info.go:67-85: the format string cut at its verbs and around its
\* attribute names, each argument formatted by its verb
PositionEntry(pos) ==
    <<"{'", "symbol", "': '", pos.Symbol,
      "', '", "quantity", "': ", SprintfF(Num(pos.Quantity), 2),
      ", '", "entry_price", "': ", SprintfF(Num(pos.EntryPrice), 2),
      ", '", "current_price", "': ", SprintfF(pos.CurrentPrice, 5),
      ", '", "liquidation_price", "': ", SprintfF(pos.LiquidationPrice, 2),
      ", '", "unrealized_pnl", "': ", SprintfF(Num(pos.UnrealizedPnl), 2),
      ", '", "leverage", "': ", SprintfF(Num(pos.Leverage), 0),
      ", '", "exit_plan", "': {'",
      "profit_target", "': ", SprintfG6(pos.ExitPlan.ProfitTarget),
      ", '", "stop_loss", "': ", SprintfG6(pos.ExitPlan.StopLoss),
      ", '", "invalidation_condition", "': '", pos.ExitPlan.InvalidationCondition,
      "'}, '", "confidence", "': ", SprintfF(Num(pos.Confidence), 2),
      ", '", "risk_usd", "': ", SprintfF(Num(pos.RiskUsd), 3),
      ", '", "sl_oid", "': ", SprintfD(pos.SlOid),
      ", '", "tp_oid", "': ", SprintfD(pos.TpOid),
      ", '", "wait_for_fill", "': ", SprintfT(pos.WaitForFill),
      ", '", "entry_oid", "': ", SprintfD(pos.EntryOid),
      ", '", "notional_usd", "': ", SprintfF(Num(pos.NotionalUsd), 2),
      "} ">>

\* info.go:66-86: the entries of the positions, in the order of the slice
RECURSIVE PositionEntries(_)
PositionEntries(ps) ==
    IF ps = <<>> THEN <<>> ELSE PositionEntry(Head(ps)) \o PositionEntries(Tail(ps))

PositionsLine == "Current live positions & performance: "

\* info.go:58-91: the string the method returns
AccountFormat(ai) ==
    <<"\nHERE IS YOUR ACCOUNT INFORMATION & PERFORMANCE\n",
      "Current Total Return (percent): ", SprintfF(Num(ai.TotalReturnPercent), 2),
      "%\n\n",
      "Available Cash: ", SprintfF(Num(ai.AvailableCash), 2), "\n\n",
      "Current Account Value: ", SprintfF(Num(ai.CurrentAccountValue), 2), "\n\n",
      PositionsLine>>
    \o PositionEntries(ai.Positions)
    \o <<"\n", "\nSharpe Ratio: ", SprintfF(Num(ai.SharpeRatio), 3), "\n">>

(***************************************************************************)
(* MarketData.Format, part_000:55-108, and its helpers.  The arrow and the  *)
(* non-breaking hyphens of its literals are written in ASCII.              *)
(***************************************************************************)
\* part_000:249-257, on a series kept as its length and its last value
getLastN(slice, n) ==
    IF slice.len = 0 THEN [len |-> 0, last |-> slice.last]
    ELSE [len |-> IF n > slice.len THEN slice.len ELSE n, last |-> slice.last]

\* the values of a slice before its last one, which the model does not keep
RECURSIVE Earlier(_)
Earlier(k) == IF k = 0 THEN "" ELSE "_, " \o Earlier(k - 1)

\* part_000:260-273 on a candle column
formatFloatSlice(slice) ==
    IF slice.len = 0 THEN "[]"
    ELSE "[" \o Earlier(slice.len - 1) \o SprintfF(Num(slice.last), 3) \o "]"

\* part_000:260-273 on an indicator series
formatTermSlice(slice) ==
    IF slice.len = 0 THEN "[]"
    ELSE "[" \o Earlier(slice.len - 1) \o SprintfTerm(slice.last, 3) \o "]"

\* part_000:66-73: each of the two lines is printed for a non-zero value only
OpenInterestLines(d) ==
    IF d.OpenInterest # 0
    THEN <<"Open Interest: Latest: ", SprintfF(Num(d.OpenInterest), 2),
           " Average: ", SprintfF(Num(d.OpenInterest), 2), "\n\n">>
    ELSE <<>>

FundingRateLines(d) ==
    IF d.FundingRate # 0
    THEN <<"Funding Rate: ", SprintfE2(d.FundingRate), "\n\n">>
    ELSE <<>>

\* part_000:57-106: the report of a MarketData, in the order it is written
MarketReport(d) ==
    <<"\n========== ", d.Symbol, " Analysis ==========\n\n",
      "current_price = ", SprintfF(Num(d.CurrentPrice), 1),
      ", current_ema20 = ", SprintfTerm(d.CurrentEMA20, 3),
      ", current_macd = ", SprintfTerm(d.CurrentMACD, 3),
      ", current_rsi (7 period) = ", SprintfTerm(d.CurrentRSI7, 3), "\n\n",
      "In addition, here is the latest BTC open interest and funding rate for perps (the instrument you are trading):\n",
      "\n">>
    \o OpenInterestLines(d)
    \o FundingRateLines(d)
    \o <<"Intraday series (by minute, oldest -> latest):\n", "\n",
         "Mid prices: ", formatFloatSlice(getLastN(d.Closes1m, 10)), "\n\n",
         "EMA indicators (20-period): ",
         formatTermSlice(getLastN(d.EMA20_1m, 10)), "\n\n",
         "MACD indicators: ", formatTermSlice(getLastN(d.MACDHist_1m, 10)), "\n\n",
         "RSI indicators (7-Period): ",
         formatTermSlice(getLastN(d.RSI7_1m, 10)), "\n\n",
         "RSI indicators (14-Period): ",
         formatTermSlice(getLastN(d.RSI14_1m, 10)), "\n\n",
         "Longer-term context (4-hour timeframe):\n", "\n",
         "20-Period EMA: ", SprintfTerm(d.CurrentEMA20_4h, 3),
         " vs. 50-Period EMA: ", SprintfTerm(d.CurrentEMA50_4h, 3), "\n\n",
         "3-Period ATR: ", SprintfTerm(d.CurrentATR3, 3),
         " vs. 14-Period ATR: ", SprintfTerm(d.CurrentATR14, 3), "\n\n",
         "Current Volume: ", SprintfF(Num(d.CurrentVolume), 3),
         " vs. Average Volume: ", SprintfTerm(d.AvgVolume, 3), "\n\n",
         "MACD indicators: ", formatTermSlice(getLastN(d.MACDHist_4h, 10)), "\n\n",
         "RSI indicators (14-Period): ",
         formatTermSlice(getLastN(d.RSI14_4h, 10)), "\n\n",
         "========================================\n">>

\* part_000:107: the string the method returns
MarketFormatResult(d) == <<>>

(***************************************************************************)
(* The callers of the renderers: a call of AccountInfo.Format on the       *)
(* snapshot GetAccountInfo returned, a call of MarketData.Format on the    *)
(* one GetMarketData returned (cmd/main.go:448), and llm.NewPrompt with    *)
(* Prompt.buildPrompt (prompt.go:78-84, 109-132).                          *)
(***************************************************************************)
MaxFormatCalls == 2
MaxSymbols == 2

UserQueries == {"", "Should I close BTC?"}

\* mutant of FormatAccountInfo: the loop takes the positions off the
\* snapshot as it renders them
FormatAccountInfoConsuming ==
    /\ pc = "done"
    /\ result.info # Nil
    /\ Len(accountReports) < MaxFormatCalls
    /\ accountReports' = Append(accountReports, AccountFormat(Deref(result.info)))
    /\ result' = [result EXCEPT !.info =
                     Ptr([Deref(result.info) EXCEPT !.Positions = <<>>])]
    /\ UNCHANGED <<marketReports, stdout, prompt, userQuery, ppc, sb, pidx,
                   promptText>>
    /\ UNCHANGED <<exchange, pc, calls, availableCash, positions, idx, cur,
                   oidx, openOrders, customPositions, totalNotional>>
    /\ UNCHANGED <<mktVars, llmVars>>

\* info.go:57-92: the snapshot is read, the text is returned
FormatAccountInfo ==
    /\ pc = "done"
    /\ result.info # Nil
    /\ Len(accountReports) < MaxFormatCalls
    /\ accountReports' = Append(accountReports, AccountFormat(Deref(result.info)))
    /\ UNCHANGED <<marketReports, stdout, prompt, userQuery, ppc, sb, pidx,
                   promptText>>
    /\ UNCHANGED <<acctVars, mktVars, llmVars>>

\* part_000:55-108: one call of the method on d: the report goes to the
\* standard output (fmt.Printf, fmt.Println), the empty string is returned
MarketFormatCall(d) ==
    /\ stdout' = stdout \o MarketReport(d)
    /\ marketReports' = Append(marketReports, MarketFormatResult(d))

\* cmd/main.go:448
FormatMarketData ==
    /\ mpc = "done"
    /\ mresult.data # Nil
    /\ Len(marketReports) < MaxFormatCalls
    /\ MarketFormatCall(Deref(mresult.data))
    /\ UNCHANGED <<accountReports, prompt, userQuery, ppc, sb, pidx, promptText>>
    /\ UNCHANGED <<acctVars, mktVars, llmVars>>

\* prompt.go:78-84, 87-89: a Prompt over a rendered account snapshot and the
\* MarketData of some symbols, and the query buildPrompt is called with
NewPrompt ==
    /\ ppc = "new"
    /\ accountReports # <<>>
    /\ \E q \in UserQueries, n \in 0..MaxSymbols :
          /\ n > 0 => (mpc = "done" /\ mresult.data # Nil)
          /\ prompt' = [accountInfo |-> accountReports[1],
                        marketdata |-> [i \in 1..n |-> Deref(mresult.data)]]
          /\ userQuery' = q
    /\ ppc' = "build"
    /\ UNCHANGED <<accountReports, marketReports, stdout, sb, pidx, promptText>>
    /\ UNCHANGED <<acctVars, mktVars, llmVars>>

\* prompt.go:110-125
BuildPromptBegin ==
    /\ ppc = "build"
    /\ sb' = (IF userQuery # "" THEN <<"User Question: ", userQuery, "\n\n">>
              ELSE <<>>)
             \o <<"=== ACCOUNT INFORMATION ===\n">>
             \o prompt.accountInfo
             \o <<"\n\n", "=== MARKET DATA ===\n">>
    /\ pidx' = 1
    /\ ppc' = "market"
    /\ UNCHANGED <<accountReports, marketReports, stdout, prompt, userQuery,
                   promptText>>
    /\ UNCHANGED <<acctVars, mktVars, llmVars>>

\* prompt.go:126-129: one iteration of the loop over p.marketdata
BuildPromptMarket ==
    /\ ppc = "market"
    /\ pidx <= Len(prompt.marketdata)
    /\ MarketFormatCall(prompt.marketdata[pidx])
    /\ sb' = sb \o MarketFormatResult(prompt.marketdata[pidx]) \o <<"\n">>
    /\ pidx' = pidx + 1
    /\ UNCHANGED <<accountReports, prompt, userQuery, ppc, promptText>>
    /\ UNCHANGED <<acctVars, mktVars, llmVars>>

\* prompt.go:131
BuildPromptReturn ==
    /\ ppc = "market"
    /\ pidx > Len(prompt.marketdata)
    /\ promptText' = sb
    /\ ppc' = "done"
    /\ UNCHANGED <<accountReports, marketReports, stdout, prompt, userQuery, sb,
                   pidx>>
    /\ UNCHANGED <<acctVars, mktVars, llmVars>>

NextReport ==
    \/ NextAccount
    \/ NextMarket
    \/ FormatAccountInfo
    \/ FormatMarketData
    \/ NewPrompt
    \/ BuildPromptBegin
    \/ BuildPromptMarket
    \/ BuildPromptReturn

\* the accounts whose snapshots are rendered: no position, one, two, one
\* with annotations and open orders, and prices that are not finite numbers
ReportPositionLists ==
    {<<>>,
     <<WithAnswers(BasePosition, TickerFails, OrdersOk(<<>>))>>,
     <<WithAnswers(BasePosition, TickerFails, OrdersOk(<<>>)),
       WithAnswers([BasePosition EXCEPT !.Symbol = Ptr("SOL"), !.Notional = Ptr(7),
                                        !.MarkPrice = Ptr(NaN)],
                   TickerLast(Num(60)),
                   OrdersOk(<<Order(Ptr(<<"7">>), Ptr("sell"), JBool(TRUE), Absent,
                                    Absent, JFloat(90))>>))>>,
     <<WithAnswers([BasePosition EXCEPT !.Info = AnnotatedInfo], TickerFails,
                   OrdersFail)>>,
     <<WithAnswers([BasePosition EXCEPT !.MarkPrice = Ptr(PosInf),
                                        !.LiquidationPrice = Ptr(NaN)],
                   TickerFails, OrdersFail)>>,
     <<WithAnswers([BasePosition EXCEPT
                       !.MarkPrice = Nil,
                       !.Info = [EmptyInfo EXCEPT !.position =
                                    PositionData(JFloat(7), JFloat(-10), Absent)]],
                   TickerFails, OrdersFail)>>}

ReportExchanges ==
    {[balance |-> b, positionsErr |-> FALSE, positions |-> ps] :
        b \in {x \in Balances : x.USDC # Nil}, ps \in ReportPositionLists}

ReportMarkets ==
    [symbol : {"BTC", "ETH"},
     ohlcv1m : {OhlcvOk(CandleSeries(1000, Candle(100, 105, 95, 10))),
                OhlcvOk(CandleSeries(8, Candle(90, 99, 88, 25)))},
     ohlcv4h : {OhlcvFails, OhlcvOk(CandleSeries(100, Candle(90, 99, 88, 25)))},
     openInterest : {[kind |-> "value", value |-> 500],
                     [kind |-> "error", value |-> 0]},
     fundingRate : {[kind |-> "value", value |-> 3]},
     shortInput : {"garbage"}]

(***************************************************************************)
(* Prompt.callDeepSeekAPI, prompt.go:134-180: the caller and the progress  *)
(* goroutine it starts.  The unbuffered channel done holds nothing: a send *)
(* and a receive on it are one joint step of the two.  ticker.C is the     *)
(* channel of a time.Ticker, of capacity 1; a tick that finds it full is   *)
(* dropped.  The log keeps the first MaxProgress progress messages and     *)
(* every message of the caller.                                            *)
(***************************************************************************)
MaxProgress == 2

SystemPrompt == "You are an expert cryptocurrency trading advisor ..."

SendingMessage == "Sending request to DeepSeek API..."

WaitingMessage ==
    "Still waiting for DeepSeek response... (reasoning models can take several minutes)"

ReceivedMessage == "Received response from DeepSeek API"

\* no response and no error (yet)
NoAnswer == [err |-> "", response |-> Nil]

\* the returns of client.CreateChatCompletion(ctx, request): a response with
\* or without choices, an error of the API, the deadline of ctx
ApiAnswers ==
    {[err |-> "", response |-> Ptr([Choices |-> n])] : n \in {0, 1}}
    \cup {[err |-> e, response |-> Nil] :
            e \in {"api error", "context deadline exceeded"}}

NoRequest == [Model |-> "", Messages |-> <<>>]

\* prompt.go:136-148
ChatCompletionRequest(text) ==
    [Model |-> "deepseek-reasoner",
     Messages |-> <<[Role |-> "system", Content |-> <<SystemPrompt>>],
                    [Role |-> "user", Content |-> text]>>]

\* a channel that was not made; prompt.go:155 makes it
NoChannel == [made |-> FALSE, received |-> 0]

MakeChan == [made |-> TRUE, received |-> 0]

Progress(log) == {k \in 1..Len(log) : log[k] = WaitingMessage}

\* log.Println from the goroutine
LogProgress(log) ==
    IF Cardinality(Progress(log)) < MaxProgress THEN Append(log, WaitingMessage)
    ELSE log

\* prompt.go:136-152: the request, the context with its deadline
BuildRequest ==
    /\ cpc = "start"
    /\ ppc = "done"
    /\ request' = ChatCompletionRequest(promptText)
    /\ ctx' = "live"
    /\ cpc' = "make"
    /\ UNCHANGED <<api, gpc, done, progressTicker, tickerC, response, llmLog, callResult>>
    /\ UNCHANGED <<acctVars, mktVars, reportVars>>

\* prompt.go:155-167: make(chan bool) and the go statement
StartProgress ==
    /\ cpc = "make"
    /\ done' = MakeChan
    /\ gpc' = "start"
    /\ cpc' = "log"
    /\ UNCHANGED <<api, request, ctx, progressTicker, tickerC, response, llmLog,
                   callResult>>
    /\ UNCHANGED <<acctVars, mktVars, reportVars>>

\* prompt.go:170
LogSending ==
    /\ cpc = "log"
    /\ llmLog' = Append(llmLog, SendingMessage)
    /\ cpc' = "call"
    /\ UNCHANGED <<api, gpc, request, ctx, done, progressTicker, tickerC, response,
                   callResult>>
    /\ UNCHANGED <<acctVars, mktVars, reportVars>>

\* prompt.go:171: the call returns, with a response or with an error
CreateChatCompletion ==
    /\ cpc = "call"
    /\ response' = api
    /\ ctx' = IF api.err = "context deadline exceeded" THEN "expired" ELSE ctx
    /\ cpc' = "send"
    /\ UNCHANGED <<api, gpc, request, done, progressTicker, tickerC, llmLog, callResult>>
    /\ UNCHANGED <<acctVars, mktVars, reportVars>>

\* prompt.go:157: the goroutine runs and starts its ticker
NewTicker ==
    /\ gpc = "start"
    /\ progressTicker' = "running"
    /\ gpc' = "select"
    /\ UNCHANGED <<api, cpc, request, ctx, done, tickerC, response, llmLog,
                   callResult>>
    /\ UNCHANGED <<acctVars, mktVars, reportVars>>

\* ten seconds pass: the running ticker puts a tick into its empty channel
Tick ==
    /\ progressTicker = "running"
    /\ tickerC = 0
    /\ tickerC' = 1
    /\ UNCHANGED <<api, cpc, gpc, request, ctx, done, progressTicker, response, llmLog,
                   callResult>>
    /\ UNCHANGED <<acctVars, mktVars, reportVars>>

\* prompt.go:160-161: select takes the case of the ticker
SelectTick ==
    /\ gpc = "select"
    /\ tickerC = 1
    /\ tickerC' = 0
    /\ gpc' = "log"
    /\ UNCHANGED <<api, cpc, request, ctx, done, progressTicker, response, llmLog,
                   callResult>>
    /\ UNCHANGED <<acctVars, mktVars, reportVars>>

\* mutant of LogWaiting: the goroutine returns after its progress message
LogWaitingReturns ==
    /\ gpc = "log"
    /\ llmLog' = LogProgress(llmLog)
    /\ gpc' = "return"
    /\ UNCHANGED <<api, cpc, request, ctx, done, progressTicker, tickerC, response,
                   callResult>>
    /\ UNCHANGED <<acctVars, mktVars, reportVars>>

\* prompt.go:162, 159: the progress message, and around the loop
LogWaiting ==
    /\ gpc = "log"
    /\ llmLog' = LogProgress(llmLog)
    /\ gpc' = "select"
    /\ UNCHANGED <<api, cpc, request, ctx, done, progressTicker, tickerC, response,
                   callResult>>
    /\ UNCHANGED <<acctVars, mktVars, reportVars>>

\* prompt.go:172 with 163: the caller's send meets the goroutine's receive
ReceiveDone ==
    /\ cpc = "send"
    /\ gpc = "select"
    /\ done.made
    /\ done' = [done EXCEPT !.received = @ + 1]
    /\ cpc' = "check"
    /\ gpc' = "return"
    /\ UNCHANGED <<api, request, ctx, progressTicker, tickerC, response, llmLog,
                   callResult>>
    /\ UNCHANGED <<acctVars, mktVars, reportVars>>

\* prompt.go:164 with the deferred ticker.Stop() of 158
ProgressReturn ==
    /\ gpc = "return"
    /\ progressTicker' = "stopped"
    /\ gpc' = "exited"
    /\ UNCHANGED <<api, cpc, request, ctx, done, tickerC, response, llmLog,
                   callResult>>
    /\ UNCHANGED <<acctVars, mktVars, reportVars>>

\* prompt.go:174-176 with the deferred cancel() of 152
ReturnError ==
    /\ cpc = "check"
    /\ response.err # ""
    /\ callResult' = [err |-> "failed to send request: " \o response.err,
                      response |-> Nil]
    /\ ctx' = "cancelled"
    /\ cpc' = "returned"
    /\ UNCHANGED <<api, gpc, request, done, progressTicker, tickerC, response, llmLog>>
    /\ UNCHANGED <<acctVars, mktVars, reportVars>>

\* prompt.go:174, 178
LogReceived ==
    /\ cpc = "check"
    /\ response.err = ""
    /\ llmLog' = Append(llmLog, ReceivedMessage)
    /\ cpc' = "return"
    /\ UNCHANGED <<api, gpc, request, ctx, done, progressTicker, tickerC, response,
                   callResult>>
    /\ UNCHANGED <<acctVars, mktVars, reportVars>>

\* prompt.go:179 with the deferred cancel() of 152
ReturnResponse ==
    /\ cpc = "return"
    /\ callResult' = [err |-> "", response |-> response.response]
    /\ ctx' = "cancelled"
    /\ cpc' = "returned"
    /\ UNCHANGED <<api, gpc, request, done, progressTicker, tickerC, response, llmLog>>
    /\ UNCHANGED <<acctVars, mktVars, reportVars>>

\* prompt.go:87-95: Prompt.Prompt builds the prompt and calls the API
NextLLM ==
    \/ BuildPromptBegin
    \/ BuildPromptMarket
    \/ BuildPromptReturn
    \/ BuildRequest
    \/ StartProgress
    \/ LogSending
    \/ CreateChatCompletion
    \/ NewTicker
    \/ Tick
    \/ SelectTick
    \/ LogWaiting
    \/ ReceiveDone
    \/ ProgressReturn
    \/ ReturnError
    \/ LogReceived
    \/ ReturnResponse

\* the Prompts explored: a rendered account without positions, with the
\* MarketData of no symbol and of one
LLMPrompts ==
    {[accountInfo |-> AccountFormat(MakeAccountInfo(100, 0, <<>>)),
      marketdata |-> m] :
        m \in {<<>>,
               <<MakeMarketData("BTC",
                                Locals1m(CandleSeries(1000, Candle(100, 105, 95, 10))),
                                Locals4h(CandleSeries(100, Candle(90, 99, 88, 25))),
                                500, 3)>>}}

(***************************************************************************)
(* Specifications: one call of each builder, the other one idle.           *)
(***************************************************************************)
\* a Prompt that was not constructed in the run
NoPrompt == [accountInfo |-> <<>>, marketdata |-> <<>>]

\* the adapter of a builder that is not called in the run
NoExchange == [balance |-> BalanceFails, positionsErr |-> TRUE, positions |-> <<>>]

NoMarket ==
    [symbol |-> "BTC", ohlcv1m |-> OhlcvFails, ohlcv4h |-> OhlcvFails,
     openInterest |-> [kind |-> "error", value |-> 0],
     fundingRate |-> [kind |-> "error", value |-> 0], shortInput |-> "panic"]

InitAccount ==
    /\ pc = "start"
    /\ calls = <<>>
    /\ availableCash = 0
    /\ positions = <<>>
    /\ idx = 1
    /\ cur = FreshLocals
    /\ oidx = 1
    /\ openOrders = <<>>
    /\ customPositions = <<>>
    /\ totalNotional = 0
    /\ result = Pending
    /\ market = NoMarket
    /\ mpc = "idle"
    /\ mcalls = <<>>
    /\ mloc = NoLocals
    /\ mresult = MPending
    /\ accountReports = <<>>
    /\ marketReports = <<>>
    /\ stdout = <<>>
    /\ prompt = NoPrompt
    /\ userQuery = ""
    /\ ppc = "idle"
    /\ sb = <<>>
    /\ pidx = 1
    /\ promptText = <<>>
    /\ api = NoAnswer
    /\ cpc = "idle"
    /\ gpc = "none"
    /\ request = NoRequest
    /\ ctx = "none"
    /\ done = NoChannel
    /\ progressTicker = "none"
    /\ tickerC = 0
    /\ response = NoAnswer
    /\ llmLog = <<>>
    /\ callResult = NoAnswer
    /\ exchange \in Exchanges

InitMarket ==
    /\ mpc = "start"
    /\ mcalls = <<>>
    /\ mloc = NoLocals
    /\ mresult = MPending
    /\ exchange = NoExchange
    /\ pc = "idle"
    /\ calls = <<>>
    /\ availableCash = 0
    /\ positions = <<>>
    /\ idx = 1
    /\ cur = FreshLocals
    /\ oidx = 1
    /\ openOrders = <<>>
    /\ customPositions = <<>>
    /\ totalNotional = 0
    /\ result = Pending
    /\ accountReports = <<>>
    /\ marketReports = <<>>
    /\ stdout = <<>>
    /\ prompt = NoPrompt
    /\ userQuery = ""
    /\ ppc = "idle"
    /\ sb = <<>>
    /\ pidx = 1
    /\ promptText = <<>>
    /\ api = NoAnswer
    /\ cpc = "idle"
    /\ gpc = "none"
    /\ request = NoRequest
    /\ ctx = "none"
    /\ done = NoChannel
    /\ progressTicker = "none"
    /\ tickerC = 0
    /\ response = NoAnswer
    /\ llmLog = <<>>
    /\ callResult = NoAnswer
    /\ market \in Markets

SpecAccount == InitAccount /\ [][NextAccount]_vars

SpecMarket == InitMarket /\ [][NextMarket]_vars

\* one call of one of the builders
InitBuilders ==
    /\ calls = <<>>
    /\ availableCash = 0
    /\ positions = <<>>
    /\ idx = 1
    /\ cur = FreshLocals
    /\ oidx = 1
    /\ openOrders = <<>>
    /\ customPositions = <<>>
    /\ totalNotional = 0
    /\ result = Pending
    /\ mcalls = <<>>
    /\ mloc = NoLocals
    /\ mresult = MPending
    /\ accountReports = <<>>
    /\ marketReports = <<>>
    /\ stdout = <<>>
    /\ prompt = NoPrompt
    /\ userQuery = ""
    /\ ppc = "idle"
    /\ sb = <<>>
    /\ pidx = 1
    /\ promptText = <<>>
    /\ api = NoAnswer
    /\ cpc = "idle"
    /\ gpc = "none"
    /\ request = NoRequest
    /\ ctx = "none"
    /\ done = NoChannel
    /\ progressTicker = "none"
    /\ tickerC = 0
    /\ response = NoAnswer
    /\ llmLog = <<>>
    /\ callResult = NoAnswer
    /\ \/ /\ pc = "start"
          /\ mpc = "idle"
          /\ market = NoMarket
          /\ exchange \in Exchanges
       \/ /\ pc = "idle"
          /\ mpc = "start"
          /\ exchange = NoExchange
          /\ market \in Markets

NextBuilders == NextAccount \/ NextMarket

SpecBuilders == InitBuilders /\ [][NextBuilders]_vars

\* both builders are called, their snapshots rendered, a prompt built
InitReport ==
    /\ pc = "start"
    /\ calls = <<>>
    /\ availableCash = 0
    /\ positions = <<>>
    /\ idx = 1
    /\ cur = FreshLocals
    /\ oidx = 1
    /\ openOrders = <<>>
    /\ customPositions = <<>>
    /\ totalNotional = 0
    /\ result = Pending
    /\ mpc = "start"
    /\ mcalls = <<>>
    /\ mloc = NoLocals
    /\ mresult = MPending
    /\ accountReports = <<>>
    /\ marketReports = <<>>
    /\ stdout = <<>>
    /\ prompt = NoPrompt
    /\ userQuery = ""
    /\ ppc = "new"
    /\ sb = <<>>
    /\ pidx = 1
    /\ promptText = <<>>
    /\ api = NoAnswer
    /\ cpc = "idle"
    /\ gpc = "none"
    /\ request = NoRequest
    /\ ctx = "none"
    /\ done = NoChannel
    /\ progressTicker = "none"
    /\ tickerC = 0
    /\ response = NoAnswer
    /\ llmLog = <<>>
    /\ callResult = NoAnswer
    /\ exchange \in ReportExchanges
    /\ market \in ReportMarkets

SpecReport == InitReport /\ [][NextReport]_vars

\* one call of Prompt.Prompt on a constructed Prompt
InitLLM ==
    /\ exchange = NoExchange
    /\ pc = "idle"
    /\ calls = <<>>
    /\ availableCash = 0
    /\ positions = <<>>
    /\ idx = 1
    /\ cur = FreshLocals
    /\ oidx = 1
    /\ openOrders = <<>>
    /\ customPositions = <<>>
    /\ totalNotional = 0
    /\ result = Pending
    /\ market = NoMarket
    /\ mpc = "idle"
    /\ mcalls = <<>>
    /\ mloc = NoLocals
    /\ mresult = MPending
    /\ accountReports = <<>>
    /\ marketReports = <<>>
    /\ stdout = <<>>
    /\ ppc = "build"
    /\ sb = <<>>
    /\ pidx = 1
    /\ promptText = <<>>
    /\ cpc = "start"
    /\ gpc = "none"
    /\ request = NoRequest
    /\ ctx = "none"
    /\ done = NoChannel
    /\ progressTicker = "none"
    /\ tickerC = 0
    /\ response = NoAnswer
    /\ llmLog = <<>>
    /\ callResult = NoAnswer
    /\ prompt \in LLMPrompts
    /\ userQuery \in UserQueries
    /\ api \in ApiAnswers

\* the scheduler runs a goroutine that can take a step and the caller when
\* it can continue; select chooses at random among the cases that are ready,
\* so a receive from done that is ready again and again is taken
FairLLM ==
    /\ WF_vars(NewTicker)
    /\ WF_vars(LogWaiting)
    /\ SF_vars(ReceiveDone)
    /\ WF_vars(ProgressReturn)
    /\ WF_vars(ReturnError)
    /\ WF_vars(LogReceived)
    /\ WF_vars(ReturnResponse)

SpecLLM == InitLLM /\ [][NextLLM]_vars /\ FairLLM

(***************************************************************************)
(* Claims.                                                                 *)
(***************************************************************************)
Range(seq) == {seq[i] : i \in 1..Len(seq)}

AccountDone == pc = "done"

Snapshot == Deref(result.info)

HasSnapshot == AccountDone /\ result.info # Nil

RECURSIVE SumNotionalUsd(_)
SumNotionalUsd(ps) ==
    IF ps = <<>> THEN 0 ELSE ps[1].NotionalUsd + SumNotionalUsd(Tail(ps))

\* C1: in every snapshot GetAccountInfo returns, CurrentAccountValue is
\* AvailableCash plus the sum of NotionalUsd over the snapshot's positions;
\* with no position it is AvailableCash.
C1_AccountValueIsCashPlusNotional ==
    HasSnapshot =>
        /\ Snapshot.CurrentAccountValue =
              Snapshot.AvailableCash + SumNotionalUsd(Snapshot.Positions)
        /\ Snapshot.Positions = <<>> =>
              Snapshot.CurrentAccountValue = Snapshot.AvailableCash

\* a snapshot of two positions with different notional values and cash
C1_Witness ==
    /\ HasSnapshot
    /\ Len(Snapshot.Positions) = 2
    /\ Snapshot.Positions[1].NotionalUsd = 200
    /\ Snapshot.Positions[2].NotionalUsd = 7
    /\ Snapshot.AvailableCash = 1000
    /\ Snapshot.CurrentAccountValue = 1207

(***************************************************************************)
(* The price chain as the specification words it.                          *)
(***************************************************************************)
\* "present, finite and non-zero"
MarkUsable(raw) ==
    /\ raw.MarkPrice # Nil
    /\ IsFinite(Deref(raw.MarkPrice))
    /\ ~IsZeroF(Deref(raw.MarkPrice))

\* the mark price is absent, NaN or zero
MarkMissing(raw) ==
    \/ raw.MarkPrice = Nil
    \/ IsNaN(Deref(raw.MarkPrice))
    \/ IsZeroF(Deref(raw.MarkPrice))

\* the auxiliary data carries position.positionValue and a non-zero
\* position.szi, both numbers
AuxCarries(raw) ==
    /\ ~raw.Info.isNil
    /\ raw.Info.position.isMap
    /\ IsFloat(raw.Info.position.positionValue)
    /\ IsFloat(raw.Info.position.szi)
    /\ raw.Info.position.szi.f # 0

\* x = v / |s|, by cross-multiplication
IsQuotient(x, v, s) == x.d > 0 /\ x.n * Abs(s) = v * x.d

AuxQuotient(raw, x) ==
    IsQuotient(x, raw.Info.position.positionValue.f, raw.Info.position.szi.f)

\* the auxiliary data yields a usable (non-zero) price
AuxUsable(raw) == AuxCarries(raw) /\ raw.Info.position.positionValue.f # 0

TickerAsked(i) == Call("FetchTicker", i) \in Range(calls)

\* the price the chain of the specification gives position i
ChainPrice(i, x) ==
    LET raw == exchange.positions[i].raw
        ticker == exchange.positions[i].ticker
    IN  IF MarkUsable(raw) THEN x = Deref(raw.MarkPrice) /\ ~TickerAsked(i)
        ELSE IF AuxUsable(raw) THEN AuxQuotient(raw, x) /\ ~TickerAsked(i)
        ELSE /\ TickerAsked(i)
             /\ x = IF ~ticker.err /\ ticker.Last # Nil
                    THEN Deref(ticker.Last) ELSE Num(0)

\* C2: every position's CurrentPrice comes from the first usable source of
\* the chain mark price (present, finite, non-zero), auxiliary data
\* (positionValue / |szi|), ticker; FetchTicker is issued for a position
\* only when neither earlier source was usable.
C2_PriceChainWithFiniteMark ==
    \A i \in 1..Len(customPositions) :
        ChainPrice(i, customPositions[i].CurrentPrice)

\* the same chain with "finite" read as the code reads it, "not NaN": this
\* holds, so the infinite mark price is the only divergence
MarkAccepted(raw) ==
    /\ raw.MarkPrice # Nil
    /\ ~IsNaN(Deref(raw.MarkPrice))
    /\ ~IsZeroF(Deref(raw.MarkPrice))

C2_PriceChainWithNonNaNMark ==
    \A i \in 1..Len(customPositions) :
        LET raw == exchange.positions[i].raw
            ticker == exchange.positions[i].ticker
            x == customPositions[i].CurrentPrice
        IN  IF MarkAccepted(raw) THEN x = Deref(raw.MarkPrice) /\ ~TickerAsked(i)
            ELSE IF AuxUsable(raw) THEN AuxQuotient(raw, x) /\ ~TickerAsked(i)
            ELSE /\ TickerAsked(i)
                 /\ x = IF ~ticker.err /\ ticker.Last # Nil
                        THEN Deref(ticker.Last) ELSE Num(0)

\* C3 as stated: with the mark price NaN, absent or zero and auxiliary data
\* carrying positionValue = V and szi = S, S # 0, CurrentPrice is V / |S|.
C3_DerivedPriceAnyValue ==
    \A i \in 1..Len(customPositions) :
        LET raw == exchange.positions[i].raw
        IN  MarkMissing(raw) /\ AuxCarries(raw) =>
                AuxQuotient(raw, customPositions[i].CurrentPrice)

\* C3 amended: the same for V # 0.  A derived price of zero counts as no
\* price: the ticker is asked and its last price, if any, is the result.
C3_DerivedPriceNonZeroValue ==
    \A i \in 1..Len(customPositions) :
        LET raw == exchange.positions[i].raw
        IN  MarkMissing(raw) /\ AuxCarries(raw)
            /\ raw.Info.position.positionValue.f # 0 =>
                AuxQuotient(raw, customPositions[i].CurrentPrice)

\* mark price NaN, positionValue 1000, szi -10: the price is 100
C3_Witness ==
    \E i \in 1..Len(customPositions) :
        LET raw == exchange.positions[i].raw
        IN  /\ raw.MarkPrice = Ptr(NaN)
            /\ AuxCarries(raw)
            /\ raw.Info.position.positionValue.f = 1000
            /\ raw.Info.position.szi.f = -10
            /\ customPositions[i].CurrentPrice = Num(100)

(***************************************************************************)
(* Order roles as the specification words them.                            *)
(***************************************************************************)
\* the id is a plain decimal numeral
PlainNumeral(id) ==
    /\ id # Nil
    /\ Deref(id) # <<>>
    /\ \A k \in 1..Len(Deref(id)) : Deref(id)[k] \in DigitChars

RECURSIVE NumeralValue(_)
NumeralValue(str) ==
    IF str = <<>> THEN 0
    ELSE 10 * NumeralValue(SubSeq(str, 1, Len(str) - 1)) + DigitVal(str[Len(str)])

\* a trigger order with a non-zero trigger price and no explicit type
AmbiguousTrigger(o) ==
    /\ IsTriggerOrder(o)
    /\ TriggerPrice(o) # 0
    /\ ~TypedStopLoss(o)
    /\ ~TypedTakeProfit(o)

OrderStep == pc = "order" /\ oidx <= Len(openOrders) /\ oidx' = oidx + 1

BecomesStopLoss(o) ==
    /\ cur'.stopLoss = TriggerPrice(o)
    /\ PlainNumeral(o.Id) => cur'.slOid = NumeralValue(Deref(o.Id))

BecomesTakeProfit(o) ==
    /\ cur'.profitTarget = TriggerPrice(o)
    /\ PlainNumeral(o.Id) => cur'.tpOid = NumeralValue(Deref(o.Id))

\* C4: processing an untyped trigger order with a non-zero trigger price
\* makes it the stop-loss (StopLoss = trigger price, SlOid = order id) when
\* it is a sell below the entry price of a long position or a buy above the
\* entry price of a short one, and the take-profit (ProfitTarget, TpOid)
\* when it is a sell above entry of a long or a buy below entry of a short.
C4_InferredRole ==
    [][OrderStep =>
         LET o == openOrders[oidx]
             t == TriggerPrice(o)
         IN  AmbiguousTrigger(o) =>
               /\ (cur.quantity > 0 /\ o.Side = Ptr("sell") /\ t < cur.entryPrice)
                     => BecomesStopLoss(o)
               /\ (cur.quantity > 0 /\ o.Side = Ptr("sell") /\ t > cur.entryPrice)
                     => BecomesTakeProfit(o)
               /\ (cur.quantity < 0 /\ o.Side = Ptr("buy") /\ t > cur.entryPrice)
                     => BecomesStopLoss(o)
               /\ (cur.quantity < 0 /\ o.Side = Ptr("buy") /\ t < cur.entryPrice)
                     => BecomesTakeProfit(o)]_vars

\* a short position entered at 100 after its two untyped buy triggers, at
\* 110 and at 90, were processed: stop-loss 110, take-profit 90, both ids 7
C4_Witness ==
    /\ pc = "order"
    /\ oidx = 3
    /\ cur.quantity = -2
    /\ cur.entryPrice = 100
    /\ openOrders =
          <<Order(Ptr(<<"7">>), Ptr("buy"), JBool(TRUE), Absent, Absent, JFloat(110)),
            Order(Ptr(<<"7">>), Ptr("buy"), JBool(TRUE), Absent, Absent, JFloat(90))>>
    /\ cur.stopLoss = 110
    /\ cur.slOid = 7
    /\ cur.profitTarget = 90
    /\ cur.tpOid = 7

(***************************************************************************)
(* Failures of the adapter calls of GetAccountInfo.                        *)
(***************************************************************************)
\* C5: when FetchBalance fails GetAccountInfo makes no further adapter call
\* and returns an error and no snapshot; when FetchBalance succeeds and
\* FetchPositions fails it issues no ticker or open-orders call and returns
\* an error and no snapshot.
C5_FetchFailuresAreFatal ==
    /\ exchange.balance.err /\ pc # "start" =>
          /\ pc = "done"
          /\ result.err # ""
          /\ result.info = Nil
          /\ calls = <<Call("FetchBalance", 0)>>
    /\ ~exchange.balance.err /\ exchange.positionsErr
       /\ pc \notin {"start", "positions"} =>
          /\ pc = "done"
          /\ result.err # ""
          /\ result.info = Nil
          /\ calls = <<Call("FetchBalance", 0), Call("FetchPositions", 0)>>

\* the balance was fetched, the positions were not, the call has returned
C5_Witness ==
    /\ pc = "done"
    /\ ~exchange.balance.err
    /\ exchange.positionsErr
    /\ result = Failed("error fetching positions")
    /\ Len(calls) = 2

\* the Position the code makes of a raw position whose optional fields are
\* replaced by their defaults where missing
CarriesRaw(p, raw) ==
    /\ p.Symbol = (IF raw.Symbol = Nil THEN "" ELSE Deref(raw.Symbol))
    /\ p.Quantity = (IF raw.Contracts = Nil THEN 0 ELSE Deref(raw.Contracts))
    /\ p.EntryPrice = (IF raw.EntryPrice = Nil THEN 0 ELSE Deref(raw.EntryPrice))
    /\ p.UnrealizedPnl = (IF raw.UnrealizedPnl = Nil THEN 0 ELSE Deref(raw.UnrealizedPnl))
    /\ p.Leverage = (IF raw.Leverage = Nil THEN 0 ELSE Deref(raw.Leverage))
    /\ p.NotionalUsd = (IF raw.Notional = Nil THEN 0 ELSE Deref(raw.Notional))
    /\ raw.Info.isNil =>
          /\ p.EntryOid = -1
          /\ p.Confidence = 0
          /\ p.RiskUsd = 0
          /\ p.ExitPlan.InvalidationCondition = ""

BothFetchesSucceed == ~exchange.balance.err /\ ~exchange.positionsErr

\* C6: once FetchBalance and FetchPositions have succeeded the call never
\* ends in an error, whatever is missing or mistyped in a position or an
\* order and whether or not FetchOpenOrders fails: it goes on until it
\* returns a snapshot with one Position per raw position, in the adapter's
\* order, defaults standing for what could not be resolved.
C6_PositionsNeverAbort ==
    BothFetchesSucceed =>
        /\ result.err = ""
        /\ pc # "done" => ENABLED NextAccount
        /\ Len(customPositions) <= Len(exchange.positions)
        /\ \A i \in 1..Len(customPositions) :
              CarriesRaw(customPositions[i], exchange.positions[i].raw)
        /\ pc = "done" =>
              /\ result.info # Nil
              /\ Snapshot.Positions = customPositions
              /\ Len(Snapshot.Positions) = Len(exchange.positions)

\* a snapshot of two positions, the first with every optional field missing
\* and a failed FetchOpenOrders, the second with a usable order
C6_Witness ==
    /\ HasSnapshot
    /\ Len(Snapshot.Positions) = 2
    /\ exchange.positions[1].raw.Contracts = Nil
    /\ exchange.positions[1].openOrders.err
    /\ Snapshot.Positions[1].Symbol = "ETH"
    /\ Snapshot.Positions[1].Quantity = 0
    /\ Snapshot.Positions[2].Symbol = "SOL"
    /\ Snapshot.Positions[2].ExitPlan.StopLoss = 90

\* the ticker lookup of position i was issued and failed
TickerFailed(i) == TickerAsked(i) /\ exchange.positions[i].ticker.err

\* C7 as stated: a failed ticker lookup for a position whose price could not
\* be resolved otherwise makes the whole call fail.
C7_TickerFailureIsFatal ==
    AccountDone /\ (\E i \in 1..Len(exchange.positions) : TickerFailed(i)) =>
        result.err # "" /\ result.info = Nil

\* C7 amended: such a failure is tolerated: the call returns a snapshot, in
\* which that position carries CurrentPrice 0.
C7_TickerFailureIsTolerated ==
    AccountDone =>
        \A i \in 1..Len(exchange.positions) :
            TickerFailed(i) =>
                /\ result.err = ""
                /\ result.info # Nil
                /\ Snapshot.Positions[i].CurrentPrice = Num(0)

\* a returned snapshot whose only position has no mark price, no auxiliary
\* data and a failed ticker lookup
C7_Witness ==
    /\ HasSnapshot
    /\ Len(exchange.positions) = 1
    /\ exchange.positions[1].raw.MarkPrice = Nil
    /\ exchange.positions[1].raw.Info.isNil
    /\ TickerFailed(1)
    /\ Snapshot.Positions[1].CurrentPrice = Num(0)

(***************************************************************************)
(* GetMarketData.                                                          *)
(***************************************************************************)
MarketDone == mpc = "done"

MarketSnapshot == Deref(mresult.data)

Asked(op, timeframe) == MCall(op, timeframe) \in Range(mcalls)

\* the snapshot but for its two supplementary fields
PriceFields(d) == [d EXCEPT !.OpenInterest = 0, !.FundingRate = 0]

\* what a supplementary call delivered: its value, or nothing
Delivered(answer) == IF answer.kind = "value" THEN answer.value ELSE 0

\* C8: once both candle fetches and the indicator computations have
\* succeeded, the open-interest and funding-rate calls are both made
\* whatever the other one did, neither an error nor a missing value nor a
\* panic of either ends the call in an error or a crash, and the snapshot
\* returned carries 0 for the failed one and the price and indicator fields
\* computed from the candles.
C8_SupplementaryFailuresTolerated ==
    Asked("FetchOpenInterest", "") =>
        /\ mpc # "panic"
        /\ mresult.err = Nil
        /\ mpc # "done" => ENABLED NextMarket
        /\ mpc \in {"return", "done"} => Asked("FetchFundingRate", "")
        /\ MarketDone =>
              /\ mresult.data # Nil
              /\ MarketSnapshot.OpenInterest = Delivered(market.openInterest)
              /\ MarketSnapshot.FundingRate = Delivered(market.fundingRate)
              /\ PriceFields(MarketSnapshot) =
                    MakeMarketData(market.symbol,
                                   Locals1m(market.ohlcv1m.candles),
                                   Locals4h(market.ohlcv4h.candles), 0, 0)

\* a snapshot returned after FetchOpenInterest panicked and FetchFundingRate
\* returned an error
C8_Witness ==
    /\ MarketDone
    /\ mresult.data # Nil
    /\ market.openInterest.kind = "panic"
    /\ market.fundingRate.kind = "error"
    /\ MarketSnapshot.OpenInterest = 0
    /\ MarketSnapshot.FundingRate = 0
    /\ MarketSnapshot.CurrentPrice = 90
    /\ Asked("FetchFundingRate", "")

\* C9: a failed candle fetch ends the call with an error that names the
\* symbol and without MarketData; after a failed 1m fetch nothing else is
\* asked of the adapter, after a failed 4h fetch neither open interest nor
\* funding rate is.
C9_CandleFetchFailureIsFatal ==
    /\ market.ohlcv1m.err /\ mpc # "start" =>
          /\ MarketDone
          /\ mresult.err # Nil
          /\ Deref(mresult.err).symbol = market.symbol
          /\ mresult.data = Nil
          /\ mcalls = <<MCall("FetchOHLCV", "1m")>>
    /\ market.ohlcv4h.err /\ Asked("FetchOHLCV", "4h") =>
          /\ MarketDone
          /\ mresult.err # Nil
          /\ Deref(mresult.err).symbol = market.symbol
          /\ mresult.data = Nil
          /\ mcalls = <<MCall("FetchOHLCV", "1m"), MCall("FetchOHLCV", "4h")>>

\* the call for ETH has returned after its 1m fetch failed
C9_Witness ==
    /\ MarketDone
    /\ market.symbol = "ETH"
    /\ market.ohlcv1m.err
    /\ mresult = MFailed("error fetching 1m data", "ETH")
    /\ Len(mcalls) = 1

\* the candles of a timeframe were returned and are too few for one of the
\* indicators computed over them
TooShort1m ==
    /\ ~market.ohlcv1m.err
    /\ \E i \in Indicators1m : ~Sufficient(i[1], i[2], market.ohlcv1m.candles)

TooShort4h ==
    /\ ~market.ohlcv4h.err
    /\ \E i \in Indicators4h : ~Sufficient(i[1], i[2], market.ohlcv4h.candles)

\* C10: with a successfully returned candle series that is too short for a
\* required indicator period (the empty one included) GetMarketData ends
\* by returning an error; it never crashes and never returns a snapshot.
C10_ShortHistoryReturnsError ==
    /\ mpc # "panic"
    /\ (TooShort1m \/ (TooShort4h /\ Asked("FetchOHLCV", "4h"))) =>
          /\ mresult.data = Nil
          /\ mpc \notin {"openInterest", "fundingRate", "return"}
          /\ MarketDone => mresult.err # Nil

\* an empty 1m series crashes the call whatever the indicator library does
\* with it: the last element of an empty slice is indexed at part_000:139
C10_EmptySeriesCrashes ==
    /\ ~market.ohlcv1m.err
    /\ market.ohlcv1m.candles.len = 0
    /\ mpc \notin {"start", "compute1m"}
    => mpc = "panic"

(***************************************************************************)
(* The renderers.                                                          *)
(***************************************************************************)
MarketSnapshotReady == mpc = "done" /\ mresult.data # Nil

\* the pieces u occur in t one after the other
Infix(u, t) ==
    \E i \in 0..(Len(t) - Len(u)) : SubSeq(t, i + 1, i + Len(u)) = u

\* the pieces of t that follow its piece h
After(t, h) ==
    LET i == CHOOSE k \in 1..Len(t) : t[k] = h
    IN  SubSeq(t, i + 1, Len(t))

MarketHeader == "=== MARKET DATA ===\n"

\* C11: every call of AccountInfo.Format and of MarketData.Format returns
\* the complete report of its snapshot and writes nothing anywhere else, so
\* the text buildPrompt returns holds, after the market-data header, the
\* report of every MarketData of the Prompt.
C11_FormatReturnsReport ==
    /\ \A k \in 1..Len(accountReports) : accountReports[k] = AccountFormat(Snapshot)
    /\ \A k \in 1..Len(marketReports) : marketReports[k] = MarketReport(MarketSnapshot)
    /\ stdout = <<>>
    /\ ppc = "done" =>
          /\ MarketHeader \in Range(promptText)
          /\ \A i \in 1..Len(prompt.marketdata) :
                Infix(MarketReport(prompt.marketdata[i]),
                      After(promptText, MarketHeader))

\* what holds instead: the account report is returned, the market report is
\* printed and "" returned, and the prompt has an empty line per MarketData
C11_MarketReportIsPrinted ==
    /\ \A k \in 1..Len(accountReports) : accountReports[k] = AccountFormat(Snapshot)
    /\ \A k \in 1..Len(marketReports) : marketReports[k] = <<>>
    /\ marketReports # <<>> => Infix(MarketReport(MarketSnapshot), stdout)
    /\ ppc = "done" =>
          After(promptText, MarketHeader) =
              [i \in 1..Len(prompt.marketdata) |-> "\n"]

\* the snapshot GetAccountInfo returned, as its locals still give it
ReturnedSnapshot == MakeAccountInfo(availableCash, totalNotional, customPositions)

\* the piece after the positions line closes the line, and no entry opens
NoPositionEntry(t) ==
    /\ PositionsLine \in Range(t)
    /\ Head(After(t, PositionsLine)) = "\n"
    /\ "{'" \notin Range(t)

C12_WitnessTwoPositions ==
    /\ Len(accountReports) = 2
    /\ Len(Snapshot.Positions) = 2
    /\ accountReports[1] = accountReports[2]
    /\ Len(accountReports[1]) > 100

AttributeKeys ==
    {"symbol", "quantity", "entry_price", "current_price", "liquidation_price",
     "unrealized_pnl", "leverage", "notional_usd", "exit_plan", "profit_target",
     "stop_loss", "invalidation_condition", "confidence", "risk_usd", "sl_oid",
     "tp_oid", "wait_for_fill", "entry_oid"}

IsAttributeKey(c) == c \in AttributeKeys

\* the attribute names of an entry, in the order they are rendered
KeysOf(entry) == SelectSeq(entry, IsAttributeKey)

\* the places of t where an entry opens
EntryStarts(t) == {i \in 1..Len(t) : t[i] = "{'"}

\* the k-th entry of a report: from its opening piece to its closing one
EntryOf(t, k) ==
    LET i == CHOOSE s \in EntryStarts(t) :
                 Cardinality({r \in EntryStarts(t) : r < s}) = k - 1
        j == CHOOSE e \in i..Len(t) :
                 t[e] = "} " /\ \A m \in i..(e - 1) : t[m] # "} "
    IN  SubSeq(t, i, j)

\* the piece rendered as the value of an attribute: the one after the
\* separator that follows its name
ValueOf(entry, key) ==
    LET i == CHOOSE k \in 1..Len(entry) : entry[k] = key
    IN  entry[i + 2]

\* every attribute of the position is the value rendered under its name
ListsAttributes(entry, pos) ==
    /\ ValueOf(entry, "symbol") = pos.Symbol
    /\ ValueOf(entry, "quantity") = SprintfF(Num(pos.Quantity), 2)
    /\ ValueOf(entry, "entry_price") = SprintfF(Num(pos.EntryPrice), 2)
    /\ ValueOf(entry, "current_price") = SprintfF(pos.CurrentPrice, 5)
    /\ ValueOf(entry, "liquidation_price") = SprintfF(pos.LiquidationPrice, 2)
    /\ ValueOf(entry, "unrealized_pnl") = SprintfF(Num(pos.UnrealizedPnl), 2)
    /\ ValueOf(entry, "leverage") = SprintfF(Num(pos.Leverage), 0)
    /\ ValueOf(entry, "notional_usd") = SprintfF(Num(pos.NotionalUsd), 2)
    /\ ValueOf(entry, "profit_target") = SprintfG6(pos.ExitPlan.ProfitTarget)
    /\ ValueOf(entry, "stop_loss") = SprintfG6(pos.ExitPlan.StopLoss)
    /\ ValueOf(entry, "invalidation_condition") = pos.ExitPlan.InvalidationCondition
    /\ ValueOf(entry, "confidence") = SprintfF(Num(pos.Confidence), 2)
    /\ ValueOf(entry, "risk_usd") = SprintfF(Num(pos.RiskUsd), 3)
    /\ ValueOf(entry, "sl_oid") = SprintfD(pos.SlOid)
    /\ ValueOf(entry, "tp_oid") = SprintfD(pos.TpOid)
    /\ ValueOf(entry, "wait_for_fill") = SprintfT(pos.WaitForFill)
    /\ ValueOf(entry, "entry_oid") = SprintfD(pos.EntryOid)

\* one entry per position, in the order of the snapshot, each listing every
\* attribute of its position under the names of `order`
EntriesInOrder(t, order) ==
    /\ Cardinality(EntryStarts(t)) = Len(Snapshot.Positions)
    /\ \A k \in 1..Len(Snapshot.Positions) :
          /\ KeysOf(EntryOf(t, k)) = order
          /\ ListsAttributes(EntryOf(t, k), Snapshot.Positions[k])

\* the order of section 3 of the specification
SectionThreeOrder ==
    <<"symbol", "quantity", "entry_price", "current_price", "liquidation_price",
      "unrealized_pnl", "leverage", "notional_usd", "exit_plan", "profit_target",
      "stop_loss", "invalidation_condition", "confidence", "risk_usd", "sl_oid",
      "tp_oid", "wait_for_fill", "entry_oid">>

\* the order of the fields of the Position struct (info.go:24-40)
StructOrder ==
    <<"symbol", "quantity", "entry_price", "current_price", "liquidation_price",
      "unrealized_pnl", "leverage", "exit_plan", "profit_target", "stop_loss",
      "invalidation_condition", "confidence", "risk_usd", "sl_oid", "tp_oid",
      "wait_for_fill", "entry_oid", "notional_usd">>

\* C13 as stated: every position is rendered as one entry that lists all
\* its attributes in the order of section 3: notional value after leverage
\* and before the exit plan.
C13_EntriesInSectionThreeOrder ==
    \A r \in 1..Len(accountReports) :
        EntriesInOrder(accountReports[r], SectionThreeOrder)

\* C13 amended: the same in the order of the Position struct, which has the
\* notional value last, after the entry order id.
C13_EntriesInStructOrder ==
    \A r \in 1..Len(accountReports) :
        EntriesInOrder(accountReports[r], StructOrder)

\* a report of two positions; the entry of the second, SOL, shows its
\* ticker price, its stop-loss order and, last, its notional value
C13_Witness ==
    /\ accountReports # <<>>
    /\ Len(Snapshot.Positions) = 2
    /\ LET e == EntryOf(accountReports[1], 2)
       IN  /\ ValueOf(e, "symbol") = "SOL"
           /\ ValueOf(e, "current_price") = "60.00000"
           /\ ValueOf(e, "stop_loss") = "90"
           /\ ValueOf(e, "sl_oid") = "7"
           /\ ValueOf(e, "notional_usd") = "7.00"
           /\ SubSeq(e, Len(e) - 3, Len(e)) =
                 <<"notional_usd", "': ", "7.00", "} ">>

(***************************************************************************)
(* Adapter calls.                                                          *)
(***************************************************************************)
\* how often x was called
Count(log, x) == Cardinality({k \in 1..Len(log) : log[k] = x})

AccountOps == {"FetchBalance", "FetchPositions", "FetchTicker", "FetchOpenOrders"}

\* C14: in one call of GetAccountInfo FetchBalance and FetchPositions are
\* issued at most once, FetchTicker and FetchOpenOrders at most once for
\* each raw position and for nothing else; in one call of GetMarketData
\* FetchOHLCV is issued at most once for each of the two timeframes,
\* FetchOpenInterest and FetchFundingRate at most once.  This includes the
\* calls that failed: none is issued again.
C14_NoRetries ==
    /\ Count(calls, Call("FetchBalance", 0)) <= 1
    /\ Count(calls, Call("FetchPositions", 0)) <= 1
    /\ \A k \in 1..Len(calls) :
          /\ calls[k].op \in AccountOps
          /\ Count(calls, calls[k]) = 1
          /\ calls[k].op \in {"FetchTicker", "FetchOpenOrders"} =>
                calls[k].pos \in 1..Len(positions)
    /\ \A k \in 1..Len(mcalls) :
          /\ Count(mcalls, mcalls[k]) = 1
          /\ mcalls[k] \in {MCall("FetchOHLCV", "1m"), MCall("FetchOHLCV", "4h"),
                             MCall("FetchOpenInterest", ""),
                             MCall("FetchFundingRate", "")}

\* a finished call for one position whose ticker lookup and open-orders
\* fetch both failed: four adapter calls, each issued once
C14_Witness ==
    /\ pc = "done"
    /\ Len(exchange.positions) = 1
    /\ exchange.positions[1].ticker.err
    /\ exchange.positions[1].openOrders.err
    /\ calls = <<Call("FetchBalance", 0), Call("FetchPositions", 0),
                 Call("FetchTicker", 1), Call("FetchOpenOrders", 1)>>

\* a finished call of GetMarketData whose two supplementary calls failed
C14_WitnessMarket ==
    /\ mpc = "done"
    /\ market.openInterest.kind = "error"
    /\ market.fundingRate.kind = "panic"
    /\ mcalls = <<MCall("FetchOHLCV", "1m"), MCall("FetchOHLCV", "4h"),
                  MCall("FetchOpenInterest", ""), MCall("FetchFundingRate", "")>>

(***************************************************************************)
(* Exit plan, linked orders and the open orders of a position.             *)
(***************************************************************************)
\* the raw position carries none of the annotations of info.go:211-238
NoAnnotations(raw) ==
    \/ raw.Info.isNil
    \/ /\ raw.Info.sl_oid = Absent
       /\ raw.Info.tp_oid = Absent
       /\ raw.Info.entry_oid = Absent
       /\ raw.Info.confidence = Absent
       /\ raw.Info.risk_usd = Absent
       /\ ~raw.Info.exit_plan.isMap

\* the open orders the adapter returned for position i, none after an error
OrdersOf(i) ==
    IF exchange.positions[i].openOrders.err THEN <<>>
    ELSE exchange.positions[i].openOrders.orders

\* the places of `orders` whose order is classified as stop-loss
\* (take-profit) for a position of this quantity and entry price
StopLossMatches(orders, quantity, entryPrice) ==
    {k \in 1..Len(orders) : Classify(orders[k], quantity, entryPrice).isStopLoss}

TakeProfitMatches(orders, quantity, entryPrice) ==
    {k \in 1..Len(orders) : Classify(orders[k], quantity, entryPrice).isTakeProfit}

SuppliesFloat(info, j) == ~info.isNil /\ IsFloat(j)

\* C15: a position without annotations, none of whose open orders is
\* classified, has SlOid = TpOid = EntryOid = -1, a zero profit target and
\* stop loss, no invalidation text and zero confidence and risk; and SlOid
\* (TpOid) differs from -1 only where the metadata supplies sl_oid (tp_oid)
\* or an open order is classified as stop-loss (take-profit).
C15_DefaultsWithoutAnnotations ==
    \A i \in 1..Len(customPositions) :
        LET raw == exchange.positions[i].raw
            pos == customPositions[i]
            sl == StopLossMatches(OrdersOf(i), pos.Quantity, pos.EntryPrice)
            tp == TakeProfitMatches(OrdersOf(i), pos.Quantity, pos.EntryPrice)
        IN  /\ NoAnnotations(raw) /\ sl = {} /\ tp = {} =>
                  /\ pos.SlOid = -1
                  /\ pos.TpOid = -1
                  /\ pos.EntryOid = -1
                  /\ pos.ExitPlan.ProfitTarget = 0
                  /\ pos.ExitPlan.StopLoss = 0
                  /\ pos.ExitPlan.InvalidationCondition = ""
                  /\ pos.Confidence = 0
                  /\ pos.RiskUsd = 0
            /\ pos.SlOid # -1 => SuppliesFloat(raw.Info, raw.Info.sl_oid) \/ sl # {}
            /\ pos.TpOid # -1 => SuppliesFloat(raw.Info, raw.Info.tp_oid) \/ tp # {}

\* a long position without annotations whose two open orders, a buy trigger
\* and an order that is no trigger order, are both left unclassified
C15_Witness ==
    /\ HasSnapshot
    /\ Len(exchange.positions) = 1
    /\ exchange.positions[1].raw.Info.isNil
    /\ exchange.positions[1].raw.Contracts = Ptr(2)
    /\ OrdersOf(1) =
          <<Order(Ptr(<<"7">>), Ptr("buy"), JBool(TRUE), Absent, Absent, JFloat(90)),
            Order(Ptr(<<"9">>), Ptr("sell"), JBool(FALSE), Absent, Absent,
                  JFloat(90))>>
    /\ Snapshot.Positions[1].SlOid = -1
    /\ Snapshot.Positions[1].TpOid = -1
    /\ Snapshot.Positions[1].EntryOid = -1
    /\ Snapshot.Positions[1].ExitPlan.StopLoss = 0

\* the largest element of a non-empty set of numbers
Last(S) == CHOOSE k \in S : \A m \in S : m <= k

\* what the metadata of the raw position gives an iteration's locals
FromMetadata(raw) == RestStep(raw, FreshLocals)

\* C16: at every point of the order loop the stop loss and SlOid are those
\* of the last order processed so far that was classified as stop-loss, and
\* the metadata's when there was none; likewise the profit target and TpOid
\* with the orders classified as take-profit.  So later matches replace
\* earlier ones and the metadata, and a match of one role leaves the other
\* role's price and id alone.
C16_LastMatchWins ==
    pc = "order" =>
        LET processed == SubSeq(openOrders, 1, oidx - 1)
            sl == StopLossMatches(processed, cur.quantity, cur.entryPrice)
            tp == TakeProfitMatches(processed, cur.quantity, cur.entryPrice)
            meta == FromMetadata(positions[idx])
        IN  /\ sl # {} =>
                  /\ cur.stopLoss = TriggerPrice(openOrders[Last(sl)])
                  /\ cur.slOid = OrderId(openOrders[Last(sl)])
            /\ sl = {} => cur.stopLoss = meta.stopLoss /\ cur.slOid = meta.slOid
            /\ tp # {} =>
                  /\ cur.profitTarget = TriggerPrice(openOrders[Last(tp)])
                  /\ cur.tpOid = OrderId(openOrders[Last(tp)])
            /\ tp = {} =>
                  cur.profitTarget = meta.profitTarget /\ cur.tpOid = meta.tpOid

\* the annotated long position (stop loss 80 of order 5, profit target 120
\* of order 6) after its two stop-loss orders: the untyped sell trigger 7 at
\* 90, then the typed stop order 8 at 110
C16_Witness ==
    /\ pc = "order"
    /\ oidx = 3
    /\ positions[idx].Info = AnnotatedInfo
    /\ openOrders =
          <<Order(Ptr(<<"7">>), Ptr("sell"), JBool(TRUE), Absent, Absent, JFloat(90)),
            Order(Ptr(<<"8">>), Ptr("buy"), Absent, JString("Stop Market"),
                  JFloat(110), Absent)>>
    /\ cur.stopLoss = 110
    /\ cur.slOid = 8
    /\ cur.profitTarget = 120
    /\ cur.tpOid = 6

\* the other role's price and id stay as they are
KeepsTakeProfit == cur'.profitTarget = cur.profitTarget /\ cur'.tpOid = cur.tpOid

KeepsStopLoss == cur'.stopLoss = cur.stopLoss /\ cur'.slOid = cur.slOid

\* what the inference from direction and side would make of the order
InferredStopLoss(o, quantity, entryPrice) ==
    /\ IsTriggerOrder(o)
    /\ TriggerPrice(o) # 0
    /\ \/ quantity > 0 /\ o.Side = Ptr("sell") /\ TriggerPrice(o) < entryPrice
       \/ quantity < 0 /\ o.Side = Ptr("buy") /\ TriggerPrice(o) > entryPrice

\* C17: an order typed "Stop Market" or "Stop Limit" is applied as the
\* stop-loss and one typed "Take Profit Market" or "Take Profit" as the
\* take-profit, for every position direction, order side and trigger price:
\* its price and id go to the role its type names and the other role keeps
\* its own.
C17_TypedRoleIsFinal ==
    [][OrderStep =>
         LET o == openOrders[oidx]
         IN  /\ TypedStopLoss(o) =>
                   /\ cur'.stopLoss = TriggerPrice(o)
                   /\ cur'.slOid = OrderId(o)
                   /\ KeepsTakeProfit
             /\ TypedTakeProfit(o) =>
                   /\ cur'.profitTarget = TriggerPrice(o)
                   /\ cur'.tpOid = OrderId(o)
                   /\ KeepsStopLoss]_vars

\* a long position entered at 100 after its flagged sell trigger at 90 typed
\* "Take Profit Market", which the inference would take for the stop-loss
C17_Witness ==
    /\ pc = "order"
    /\ oidx = 2
    /\ cur.quantity = 2
    /\ cur.entryPrice = 100
    /\ openOrders[1] = Order(Ptr(<<"6">>), Ptr("sell"), JBool(TRUE),
                             JString("Take Profit Market"), Absent, JFloat(90))
    /\ InferredStopLoss(openOrders[1], cur.quantity, cur.entryPrice)
    /\ cur.profitTarget = 90
    /\ cur.tpOid = 6
    /\ cur.stopLoss = 0
    /\ cur.slOid = -1

\* C18: processing an order that is neither flagged as a trigger order nor
\* typed as a stop or take-profit order leaves the stop loss, the profit
\* target, SlOid and TpOid as they were, whatever its side and prices.
C18_PlainOrderChangesNothing ==
    [][OrderStep =>
         LET o == openOrders[oidx]
         IN  ~IsTriggerOrder(o) /\ ~TypedStopLoss(o) /\ ~TypedTakeProfit(o) =>
                 KeepsStopLoss /\ KeepsTakeProfit]_vars

\* the annotated long position after an unflagged sell order with a price
\* of 90, below its entry price: exit plan and ids are the metadata's
C18_Witness ==
    /\ pc = "order"
    /\ oidx = 2
    /\ positions[idx].Info = AnnotatedInfo
    /\ cur.quantity = 2
    /\ openOrders[1] = Order(Ptr(<<"9">>), Ptr("sell"), JBool(FALSE), Absent,
                             Absent, JFloat(90))
    /\ cur.stopLoss = 80
    /\ cur.slOid = 5
    /\ cur.profitTarget = 120
    /\ cur.tpOid = 6

\* the auxiliary data of the raw position carry a liquidation price
HasAuxiliaryLiquidation(raw) ==
    /\ ~raw.Info.isNil
    /\ raw.Info.position.isMap
    /\ IsFloat(raw.Info.position.liquidationPx)

C19_WitnessAdapterFirst ==
    /\ HasSnapshot
    /\ Len(exchange.positions) = 1
    /\ exchange.positions[1].raw.LiquidationPrice = Ptr(Num(30))
    /\ HasAuxiliaryLiquidation(exchange.positions[1].raw)
    /\ Snapshot.Positions[1].LiquidationPrice = Num(30)

\* a reported value of zero is a value: the 40 of the auxiliary data is not
\* consulted (the mark price, by contrast, falls through when zero or NaN)
C19_WitnessZeroReported ==
    /\ HasSnapshot
    /\ Len(exchange.positions) = 1
    /\ exchange.positions[1].raw.LiquidationPrice = Ptr(Num(0))
    /\ HasAuxiliaryLiquidation(exchange.positions[1].raw)
    /\ Snapshot.Positions[1].LiquidationPrice = Num(0)

\* neither stopPrice nor triggerPrice of the order is a non-zero number
NoTriggerPrice(o) == TriggerPrice(o) = 0

\* C20 as stated: processing an order without a non-zero trigger price
\* leaves the stop loss, the profit target, SlOid and TpOid as they were,
\* also when the order is typed as a stop or take-profit order.
C20_NoPriceNoChange ==
    [][OrderStep /\ NoTriggerPrice(openOrders[oidx]) =>
           KeepsStopLoss /\ KeepsTakeProfit]_vars

\* C20 amended: processing an order without a non-zero trigger price that is
\* not typed as a stop or take-profit order leaves the four fields as they
\* were; one typed as a stop order sets the stop loss to 0 and SlOid to its
\* id and keeps the take-profit pair, one typed as a take-profit order sets
\* the profit target to 0 and TpOid to its id and keeps the stop-loss pair.
C20_NoPriceNoChangeUnlessTyped ==
    [][OrderStep /\ NoTriggerPrice(openOrders[oidx]) =>
         LET o == openOrders[oidx]
         IN  /\ ~TypedStopLoss(o) /\ ~TypedTakeProfit(o) =>
                   KeepsStopLoss /\ KeepsTakeProfit
             /\ TypedStopLoss(o) =>
                   cur'.stopLoss = 0 /\ cur'.slOid = OrderId(o) /\ KeepsTakeProfit
             /\ TypedTakeProfit(o) =>
                   /\ cur'.profitTarget = 0
                   /\ cur'.tpOid = OrderId(o)
                   /\ KeepsStopLoss]_vars

\* the annotated long position after a flagged sell trigger without any
\* price: stop loss 80 of order 5 and profit target 120 of order 6 remain
C20_Witness ==
    /\ pc = "order"
    /\ oidx = 2
    /\ positions[idx].Info = AnnotatedInfo
    /\ openOrders[1] = Order(Ptr(<<"7">>), Ptr("sell"), JBool(TRUE), Absent,
                             Absent, Absent)
    /\ NoTriggerPrice(openOrders[1])
    /\ cur.stopLoss = 80
    /\ cur.slOid = 5
    /\ cur.profitTarget = 120
    /\ cur.tpOid = 6

\* the same position after order 8, typed "Stop Market", without any price:
\* the stop loss of 80 is now 0 and the linked order is 8
C20_WitnessTyped ==
    /\ pc = "order"
    /\ oidx = 2
    /\ positions[idx].Info = AnnotatedInfo
    /\ openOrders[1] = Order(Ptr(<<"8">>), Ptr("buy"), Absent,
                             JString("Stop Market"), Absent, Absent)
    /\ NoTriggerPrice(openOrders[1])
    /\ cur.stopLoss = 0
    /\ cur.slOid = 8
    /\ cur.profitTarget = 120
    /\ cur.tpOid = 6

\* CreateChatCompletion has returned and the caller is at its send on done
AtSend == cpc = "send"

\* the value was received, the goroutine is gone, the call has returned
CallFinished ==
    /\ done.received = 1
    /\ gpc = "exited"
    /\ cpc = "returned"

\* C21: caller and progress goroutine never deadlock.  Whenever
\* CreateChatCompletion has returned, with a response or with an error, the
\* caller's send on done is eventually received, the goroutine terminates
\* and callDeepSeekAPI returns; and no step taken after the goroutine has
\* received done adds a progress message to the log.
C21_SendIsReceivedAndCallReturns ==
    /\ AtSend ~> CallFinished
    /\ [][done.received > 0 => Progress(llmLog') = Progress(llmLog)]_vars

\* a call that failed at the deadline has returned its error after the
\* goroutine logged progress, received done and stopped its ticker
C21_Witness ==
    /\ CallFinished
    /\ api.err = "context deadline exceeded"
    /\ callResult.err # ""
    /\ Progress(llmLog) # {}
    /\ progressTicker = "stopped"
    /\ ctx = "cancelled"

\* a call that got its response has returned it
C21_WitnessResponse ==
    /\ CallFinished
    /\ callResult.err = ""
    /\ callResult.response # Nil
    /\ llmLog[Len(llmLog)] = ReceivedMessage

\* the caller waits at its send while the goroutine, having taken a tick, is
\* about to log
C21_WitnessSendWaits ==
    /\ AtSend
    /\ gpc = "log"
    /\ done.received = 0

====
